---- MODULE Spec2Model ----
(***************************************************************************)
(* TaskFlow: the Board component's mutation handlers (components/Board.tsx *)
(* as found in src/unnamed/part_001, second definition of Board, lines     *)
(* 450-1316) modelled as a state machine over the in-memory board that     *)
(* App keeps with useState and hands to Board as the `board` prop.         *)
(*                                                                         *)
(* Ids are integers: the strings returned by generateId are fresh, and the *)
(* model draws them from the counter nextId.  Strings of the program are   *)
(* TLA+ strings; `undefined` is the string Undefined.  An optional array   *)
(* (assignedMembers) is <<>> when undefined and <<array>> when set.        *)
(* An ActivityLogEntry keeps id, action, oldValue and newValue; oldValue   *)
(* and newValue are wrapped in a sequence (<<v>> for a scalar v, the array *)
(* itself for an array, <<>> when the entry has none).  The timestamp and  *)
(* the human readable `details` sentence are not kept.                     *)
(***************************************************************************)
EXTENDS Integers, Sequences, FiniteSets, TLC

VARIABLES
    board,      \* App's `board` state, the prop the handlers close over
    nextId,     \* the next id generateId returns
    ops,        \* number of handler invocations so far
    outcome,    \* what the last handler did: "none" | "updated" | "ignored" | "threw"
    lastOp,     \* the last handler invocation and its arguments
    prev,       \* the `board` prop the last handler was invoked with
    pending,    \* the asynchronous calls of App that await storage, oldest first
    store,      \* what storage holds (tables of the hosted store, localStorage keys)
    app,        \* App's other state: `boards` and `deletingBoardId`
    view        \* state of the components below App: Board's boardTitle,
                \* isEditingTitle and filterTags, DeleteBoardModal's isChecked

\* what the handlers of Board read and write
boardVars == <<board, nextId, ops, outcome, lastOp, prev>>
\* what App, storage and the component state add to it
appVars == <<pending, store, app, view>>

vars == <<board, nextId, ops, outcome, lastOp, prev, pending, store, app, view>>

-----------------------------------------------------------------------------
(* Bounds of the model *)

\* handler invocations explored from the fresh board
MaxOps == 3
\* the handlers are invoked on the first MaxTargets columns of the board
MaxTargets == 2
\* asynchronous calls made in a session of App (the save of the loaded board
\* included)
MaxCalls == 3
\* end dates lie at most MaxDays days before or after today
MaxDays == 5

-----------------------------------------------------------------------------
(* Values *)

Undefined == "undefined"

\* an id no task and no column has
UnknownId == 0
\* an id for which taskId.startsWith('temp-') holds
TempId == -1
\* `over` of a DragEndEvent that ended outside every droppable (over === null)
NullOver == -2
\* what array.splice(from, 1)[0] yields when nothing was removed
UndefinedId == -3

None == <<>>
Some(x) == <<x>>
\* value || []
OrEmpty(o) == IF o = None THEN <<>> ELSE o[1]

\* String.prototype.trim on the titles of the model
Trim(s) == IF s \in {"", " "} THEN "" ELSE s

-----------------------------------------------------------------------------
(* Array helpers (JavaScript semantics, indices are 0-based) *)

\* Array.prototype.indexOf
IndexOf(s, x) ==
    IF \E i \in 1..Len(s) : s[i] = x
    THEN (CHOOSE i \in 1..Len(s) : s[i] = x /\ \A j \in 1..(i - 1) : s[j] # x) - 1
    ELSE -1

\* Array.prototype.includes
Includes(s, x) == \E i \in 1..Len(s) : s[i] = x

\* array.filter((y) => y !== x)
FilterOut(s, x) == SelectSeq(s, LAMBDA y : y # x)

\* the start index Array.prototype.splice uses for a given `start`
SpliceStart(n, start) ==
    IF start < 0
    THEN (IF n + start < 0 THEN 0 ELSE n + start)
    ELSE (IF start > n THEN n ELSE start)

\* array.splice(start, 0, x) on a copy
SpliceInsert(s, start, x) ==
    LET k == SpliceStart(Len(s), start)
    IN  SubSeq(s, 1, k) \o <<x>> \o SubSeq(s, k + 1, Len(s))

\* array.splice(start, 1) on a copy: the array that remains
SpliceRemove(s, start) ==
    LET k == SpliceStart(Len(s), start)
    IN  IF k < Len(s) THEN SubSeq(s, 1, k) \o SubSeq(s, k + 2, Len(s)) ELSE s

\* array.splice(start, 1)[0]
SpliceRemoved(s, start) ==
    LET k == SpliceStart(Len(s), start)
    IN  IF k < Len(s) THEN s[k + 1] ELSE UndefinedId

\* arrayMove that inserts at the index the target has after the removal
arrayMoveBeforeTarget(array, from, to) ==
    LET t == IF to < 0 THEN Len(array) + to ELSE to
    IN  SpliceInsert(SpliceRemove(array, from), IF from < t THEN t - 1 ELSE t,
                     SpliceRemoved(array, from))

\* arrayMove of @dnd-kit/sortable:
\*   newArray = array.slice();
\*   newArray.splice(to < 0 ? newArray.length + to : to, 0, newArray.splice(from, 1)[0]);
arrayMove(array, from, to) ==
    LET t == IF to < 0 THEN Len(array) + to ELSE to
    IN  SpliceInsert(SpliceRemove(array, from), t, SpliceRemoved(array, from))

-----------------------------------------------------------------------------
(* Board helpers *)

ColumnIds(b) == {b.columns[i].id : i \in 1..Len(b.columns)}
TaskIds(b) == DOMAIN b.tasks

\* board.columns.find((col) => col.id === id): its index, 0 when undefined
FindColumn(b, id) ==
    IF \E i \in 1..Len(b.columns) : b.columns[i].id = id
    THEN CHOOSE i \in 1..Len(b.columns) :
            b.columns[i].id = id /\ \A j \in 1..(i - 1) : b.columns[j].id # id
    ELSE 0

\* column?.title, wrapped
ColumnTitle(b, id) ==
    IF FindColumn(b, id) = 0 THEN <<Undefined>> ELSE <<b.columns[FindColumn(b, id)].title>>

\* { ...tasks, [id]: task }
PutTask(tasks, id, task) ==
    [i \in DOMAIN tasks \cup {id} |-> IF i = id THEN task ELSE tasks[i]]

\* delete tasks[id] for every id of ids
DropTasks(tasks, ids) == [i \in DOMAIN tasks \ ids |-> tasks[i]]

Range(s) == {s[i] : i \in 1..Len(s)}

\* what a handler hands back: the board passed to onBoardUpdate (or the board
\* unchanged), what happened, and how many ids generateId produced
Updated(b, n) == [board |-> b, outcome |-> "updated", ids |-> n]
Ignored(b) == [board |-> b, outcome |-> "ignored", ids |-> 0]
Threw(b) == [board |-> b, outcome |-> "threw", ids |-> 0]

-----------------------------------------------------------------------------
(* The handlers of Board.  b is the `board` prop, nid the next generateId. *)

\* MoveToEnd with the task put in front of the destination column
MoveToFront(cols, from, to, taskId) ==
    [i \in 1..Len(cols) |->
        IF cols[i].id = from
        THEN [cols[i] EXCEPT !.taskIds = FilterOut(@, taskId)]
        ELSE IF cols[i].id = to
             THEN [cols[i] EXCEPT !.taskIds = <<taskId>> \o @]
             ELSE cols[i]]

\* MoveToEnd that leaves the id in the column it came from
MoveToEndUnfiltered(cols, from, to, taskId) ==
    [i \in 1..Len(cols) |->
        IF cols[i].id = to
        THEN [cols[i] EXCEPT !.taskIds = Append(@, taskId)]
        ELSE cols[i]]

\* board.columns.map(...) of handleDragEnd (drop on a column) and of
\* handleUpdateTask: the task leaves column `from` and is appended to column `to`
MoveToEnd(cols, from, to, taskId) ==
    [i \in 1..Len(cols) |->
        IF cols[i].id = from
        THEN [cols[i] EXCEPT !.taskIds = FilterOut(@, taskId)]
        ELSE IF cols[i].id = to
             THEN [cols[i] EXCEPT !.taskIds = Append(@, taskId)]
             ELSE cols[i]]

\* DropOnColumn without the test sourceColumn.id !== targetColumn.id
DropOnColumnUnguarded(b, activeId, tc) ==
    LET activeTask == b.tasks[activeId]
        sc == FindColumn(b, activeTask.columnId)
    IN  IF sc # 0
        THEN Updated([b EXCEPT
                !.columns = MoveToEnd(b.columns, b.columns[sc].id, b.columns[tc].id, activeId),
                !.tasks = PutTask(b.tasks, activeId,
                                  [activeTask EXCEPT !.columnId = b.columns[tc].id])], 0)
        ELSE Ignored(b)

\* handleDragEnd, branch `if (targetColumn)`: dropped on a column
DropOnColumn(b, activeId, tc) ==
    LET activeTask == b.tasks[activeId]
        sc == FindColumn(b, activeTask.columnId)
    IN  IF sc # 0 /\ b.columns[sc].id # b.columns[tc].id
        THEN Updated([b EXCEPT
                !.columns = MoveToEnd(b.columns, b.columns[sc].id, b.columns[tc].id, activeId),
                !.tasks = PutTask(b.tasks, activeId,
                                  [activeTask EXCEPT !.columnId = b.columns[tc].id])], 0)
        ELSE Ignored(b)

\* handleDragEnd, branch `activeTask.columnId === overTask.columnId`
ReorderInColumn(b, activeId, overId, sc) ==
    LET oldIndex == IndexOf(b.columns[sc].taskIds, activeId)
        newIndex == IndexOf(b.columns[sc].taskIds, overId)
        newTaskIds == arrayMove(b.columns[sc].taskIds, oldIndex, newIndex)
    IN  Updated([b EXCEPT !.columns =
                    [i \in 1..Len(b.columns) |->
                        IF b.columns[i].id = b.columns[sc].id
                        THEN [b.columns[i] EXCEPT !.taskIds = newTaskIds]
                        ELSE b.columns[i]]], 0)

\* DropOnTaskOfOtherColumn that leaves the task in its source column
DropOnTaskKeepsSource(b, activeId, overId, sc, tc) ==
    LET activeTask == b.tasks[activeId]
        newIndex == IndexOf(b.columns[tc].taskIds, overId)
        targetTaskIds == SpliceInsert(b.columns[tc].taskIds, newIndex, activeId)
    IN  Updated([b EXCEPT
            !.columns =
                [i \in 1..Len(b.columns) |->
                    IF b.columns[i].id = b.columns[tc].id
                    THEN [b.columns[i] EXCEPT !.taskIds = targetTaskIds]
                    ELSE b.columns[i]],
            !.tasks = PutTask(b.tasks, activeId,
                              [activeTask EXCEPT !.columnId = b.columns[tc].id])], 0)

\* DropOnTaskOfOtherColumn that inserts behind the task it was dropped on
DropOnTaskInsertsAfter(b, activeId, overId, sc, tc) ==
    LET activeTask == b.tasks[activeId]
        newIndex == IndexOf(b.columns[tc].taskIds, overId) + 1
        sourceTaskIds == FilterOut(b.columns[sc].taskIds, activeId)
        targetTaskIds == SpliceInsert(b.columns[tc].taskIds, newIndex, activeId)
    IN  Updated([b EXCEPT
            !.columns =
                [i \in 1..Len(b.columns) |->
                    IF b.columns[i].id = b.columns[sc].id
                    THEN [b.columns[i] EXCEPT !.taskIds = sourceTaskIds]
                    ELSE IF b.columns[i].id = b.columns[tc].id
                         THEN [b.columns[i] EXCEPT !.taskIds = targetTaskIds]
                         ELSE b.columns[i]],
            !.tasks = PutTask(b.tasks, activeId,
                              [activeTask EXCEPT !.columnId = b.columns[tc].id])], 0)

\* handleDragEnd, branch "dropped on a task in another column"
DropOnTaskOfOtherColumn(b, activeId, overId, sc, tc) ==
    LET activeTask == b.tasks[activeId]
        newIndex == IndexOf(b.columns[tc].taskIds, overId)
        sourceTaskIds == FilterOut(b.columns[sc].taskIds, activeId)
        targetTaskIds == SpliceInsert(b.columns[tc].taskIds, newIndex, activeId)
    IN  Updated([b EXCEPT
            !.columns =
                [i \in 1..Len(b.columns) |->
                    IF b.columns[i].id = b.columns[sc].id
                    THEN [b.columns[i] EXCEPT !.taskIds = sourceTaskIds]
                    ELSE IF b.columns[i].id = b.columns[tc].id
                         THEN [b.columns[i] EXCEPT !.taskIds = targetTaskIds]
                         ELSE b.columns[i]],
            !.tasks = PutTask(b.tasks, activeId,
                              [activeTask EXCEPT !.columnId = b.columns[tc].id])], 0)

\* handleDragEnd, branch "dropped on a task"
DropOnTask(b, activeId, overId) ==
    IF overId \notin DOMAIN b.tasks
    THEN Ignored(b)
    ELSE LET sc == FindColumn(b, b.tasks[activeId].columnId)
             tc == FindColumn(b, b.tasks[overId].columnId)
         IN  IF sc = 0 \/ tc = 0
             THEN Ignored(b)
             ELSE IF b.tasks[activeId].columnId = b.tasks[overId].columnId
                  THEN ReorderInColumn(b, activeId, overId, sc)
                  ELSE DropOnTaskOfOtherColumn(b, activeId, overId, sc, tc)

handleDragEnd(b, activeId, overId) ==
    IF overId = NullOver
    THEN Ignored(b)
    ELSE IF activeId \notin DOMAIN b.tasks
         THEN Ignored(b)
         ELSE IF FindColumn(b, overId) # 0
              THEN DropOnColumn(b, activeId, FindColumn(b, overId))
              ELSE DropOnTask(b, activeId, overId)

\* the activity log entry of a new task
CreatedEntry(id) ==
    [id |-> id, action |-> "created", oldValue |-> <<>>, newValue |-> <<>>]

\* the Task object handleAddTask builds (no priority, no assignedMembers)
NewTask(id, logId, columnId, title) ==
    [id |-> id, title |-> title, description |-> "", startDate |-> "", endDate |-> "",
     columnId |-> columnId, tags |-> <<>>, priority |-> Undefined,
     assignedMembers |-> None, activityLog |-> <<CreatedEntry(logId)>>]

\* handleAddTask that puts the new task in front of the column
handleAddTaskInFront(b, nid, columnId, title) ==
    LET newTask == NewTask(nid, nid + 1, columnId, title)
        newColumns == [i \in 1..Len(b.columns) |->
                          IF b.columns[i].id = columnId
                          THEN [b.columns[i] EXCEPT !.taskIds = <<nid>> \o @]
                          ELSE b.columns[i]]
    IN  Updated([b EXCEPT !.columns = newColumns,
                          !.tasks = PutTask(b.tasks, nid, newTask)], 2)

handleAddTask(b, nid, columnId, title) ==
    LET newTask == NewTask(nid, nid + 1, columnId, title)
        newColumns == [i \in 1..Len(b.columns) |->
                          IF b.columns[i].id = columnId
                          THEN [b.columns[i] EXCEPT !.taskIds = Append(@, nid)]
                          ELSE b.columns[i]]
    IN  Updated([b EXCEPT !.columns = newColumns,
                          !.tasks = PutTask(b.tasks, nid, newTask)], 2)

\* Column.handleAddTask: `if (newTaskTitle.trim()) onAddTask(column.id, newTaskTitle)`
ColumnHandleAddTask(b, nid, columnId, newTaskTitle) ==
    IF Trim(newTaskTitle) # ""
    THEN handleAddTask(b, nid, columnId, newTaskTitle)
    ELSE Ignored(b)

\* ListView.handleAddTask: `if (newTaskTitle.trim()) onAddTask(columnId, newTaskTitle)`
ListViewHandleAddTask(b, nid, columnId, newTaskTitle) ==
    IF Trim(newTaskTitle) # ""
    THEN handleAddTask(b, nid, columnId, newTaskTitle)
    ELSE Ignored(b)

\* handleDeleteTask that forgets the column's taskIds
handleDeleteTaskKeepsColumn(b, taskId) ==
    IF taskId = TempId \/ taskId \notin DOMAIN b.tasks
    THEN Ignored(b)
    ELSE Updated([b EXCEPT !.tasks = DropTasks(b.tasks, {taskId})], 0)

\* handleDeleteTask without `if (!task) return`: task.columnId of undefined
handleDeleteTaskUnguarded(b, taskId) ==
    IF taskId = TempId
    THEN Ignored(b)
    ELSE IF taskId \notin DOMAIN b.tasks
         THEN Threw(b)
         ELSE LET task == b.tasks[taskId]
                  newColumns == [i \in 1..Len(b.columns) |->
                                    IF b.columns[i].id = task.columnId
                                    THEN [b.columns[i] EXCEPT !.taskIds = FilterOut(@, taskId)]
                                    ELSE b.columns[i]]
              IN  Updated([b EXCEPT !.columns = newColumns,
                                    !.tasks = DropTasks(b.tasks, {taskId})], 0)

handleDeleteTask(b, taskId) ==
    IF taskId = TempId
    THEN Ignored(b)
    ELSE IF taskId \notin DOMAIN b.tasks
         THEN Ignored(b)
         ELSE LET task == b.tasks[taskId]
                  newColumns == [i \in 1..Len(b.columns) |->
                                    IF b.columns[i].id = task.columnId
                                    THEN [b.columns[i] EXCEPT !.taskIds = FilterOut(@, taskId)]
                                    ELSE b.columns[i]]
              IN  Updated([b EXCEPT !.columns = newColumns,
                                    !.tasks = DropTasks(b.tasks, {taskId})], 0)

handleRenameColumn(b, columnId, newTitle) ==
    Updated([b EXCEPT !.columns =
                [i \in 1..Len(b.columns) |->
                    IF b.columns[i].id = columnId
                    THEN [b.columns[i] EXCEPT !.title = newTitle]
                    ELSE b.columns[i]]], 0)

\* handleDeleteColumn without `if (!column) return`: column.taskIds of undefined
handleDeleteColumnUnguarded(b, columnId) ==
    IF FindColumn(b, columnId) = 0
    THEN Threw(b)
    ELSE LET column == b.columns[FindColumn(b, columnId)]
         IN  Updated([b EXCEPT
                 !.columns = SelectSeq(b.columns, LAMBDA col : col.id # columnId),
                 !.tasks = DropTasks(b.tasks, Range(column.taskIds))], 0)

\* handleDeleteColumn that leaves the column's tasks in `tasks`
handleDeleteColumnKeepsTasks(b, columnId) ==
    IF FindColumn(b, columnId) = 0
    THEN Ignored(b)
    ELSE Updated([b EXCEPT
             !.columns = SelectSeq(b.columns, LAMBDA col : col.id # columnId)], 0)

handleDeleteColumn(b, columnId) ==
    IF FindColumn(b, columnId) = 0
    THEN Ignored(b)
    ELSE LET column == b.columns[FindColumn(b, columnId)]
         IN  Updated([b EXCEPT
                 !.columns = SelectSeq(b.columns, LAMBDA col : col.id # columnId),
                 !.tasks = DropTasks(b.tasks, Range(column.taskIds))], 0)

handleAddColumn(b, nid) ==
    Updated([b EXCEPT !.columns =
                Append(@, [id |-> nid, title |-> "Neue Spalte", taskIds |-> <<>>])], 1)

\* handleGlobalTagUpdate without the spread of board.globalTags
handleGlobalTagUpdateAlone(b, label, tag) ==
    Updated([b EXCEPT !.globalTags = [l \in {label} |-> tag]], 0)

handleGlobalTagUpdate(b, label, tag) ==
    Updated([b EXCEPT !.globalTags =
                [l \in DOMAIN b.globalTags \cup {label} |->
                    IF l = label THEN tag ELSE b.globalTags[l]]], 0)

\* handleDeleteTag that removes the definition and leaves the tasks' tags
handleDeleteTagGlobalOnly(b, tagLabel) ==
    Updated([b EXCEPT
        !.globalTags = [l \in DOMAIN b.globalTags \ {tagLabel} |-> b.globalTags[l]]], 0)

handleDeleteTag(b, tagLabel) ==
    Updated([b EXCEPT
        !.tasks = [i \in DOMAIN b.tasks |->
                      IF Includes(b.tasks[i].tags, tagLabel)
                      THEN [b.tasks[i] EXCEPT !.tags = FilterOut(@, tagLabel)]
                      ELSE b.tasks[i]],
        !.globalTags = [l \in DOMAIN b.globalTags \ {tagLabel} |-> b.globalTags[l]]], 0)

\* updates.f !== undefined for a string-valued field f
Given(updates, f) == f \in DOMAIN updates /\ updates[f] # Undefined

\* { ...task, ...updates }[f]
Spread(task, updates, f) == IF f \in DOMAIN updates THEN updates[f] ELSE task[f]

Entry(action, old, new) == [action |-> action, oldValue |-> old, newValue |-> new]

\* ChangeEntries without the test `updates.title !== task.title`
ChangeEntriesUncompared(b, task, updates) ==
    (IF Given(updates, "title")
     THEN <<Entry("title_changed", <<task.title>>, <<updates.title>>)>> ELSE <<>>)
    \o
    (IF Given(updates, "description") /\ updates.description # task.description
     THEN <<Entry("description_changed", <<task.description>>, <<updates.description>>)>>
     ELSE <<>>)
    \o
    (IF Given(updates, "startDate") /\ updates.startDate # task.startDate
     THEN <<Entry("dates_changed", <<task.startDate>>, <<updates.startDate>>)>> ELSE <<>>)
    \o
    (IF Given(updates, "endDate") /\ updates.endDate # task.endDate
     THEN <<Entry("dates_changed", <<task.endDate>>, <<updates.endDate>>)>> ELSE <<>>)
    \o
    (IF "columnId" \in DOMAIN updates /\ updates.columnId # task.columnId
     THEN <<Entry("column_changed", ColumnTitle(b, task.columnId),
                  ColumnTitle(b, updates.columnId))>>
     ELSE <<>>)
    \o
    (IF "tags" \in DOMAIN updates /\ updates.tags # task.tags
     THEN <<Entry("tags_changed", task.tags, updates.tags)>> ELSE <<>>)
    \o
    (IF Given(updates, "priority") /\ updates.priority # task.priority
     THEN <<Entry("priority_changed", <<task.priority>>, <<updates.priority>>)>> ELSE <<>>)
    \o
    (IF "assignedMembers" \in DOMAIN updates
        /\ updates.assignedMembers # OrEmpty(task.assignedMembers)
     THEN <<Entry("tags_changed", OrEmpty(task.assignedMembers), updates.assignedMembers)>>
     ELSE <<>>)

\* newLogEntries of handleUpdateTask, in the order they are pushed, without ids
ChangeEntries(b, task, updates) ==
    (IF Given(updates, "title") /\ updates.title # task.title
     THEN <<Entry("title_changed", <<task.title>>, <<updates.title>>)>> ELSE <<>>)
    \o
    (IF Given(updates, "description") /\ updates.description # task.description
     THEN <<Entry("description_changed", <<task.description>>, <<updates.description>>)>>
     ELSE <<>>)
    \o
    (IF Given(updates, "startDate") /\ updates.startDate # task.startDate
     THEN <<Entry("dates_changed", <<task.startDate>>, <<updates.startDate>>)>> ELSE <<>>)
    \o
    (IF Given(updates, "endDate") /\ updates.endDate # task.endDate
     THEN <<Entry("dates_changed", <<task.endDate>>, <<updates.endDate>>)>> ELSE <<>>)
    \o
    (IF "columnId" \in DOMAIN updates /\ updates.columnId # task.columnId
     THEN <<Entry("column_changed", ColumnTitle(b, task.columnId),
                  ColumnTitle(b, updates.columnId))>>
     ELSE <<>>)
    \o
    (IF "tags" \in DOMAIN updates /\ updates.tags # task.tags
     THEN <<Entry("tags_changed", task.tags, updates.tags)>> ELSE <<>>)
    \o
    (IF Given(updates, "priority") /\ updates.priority # task.priority
     THEN <<Entry("priority_changed", <<task.priority>>, <<updates.priority>>)>> ELSE <<>>)
    \o
    (IF "assignedMembers" \in DOMAIN updates
        /\ updates.assignedMembers # OrEmpty(task.assignedMembers)
     THEN <<Entry("tags_changed", OrEmpty(task.assignedMembers), updates.assignedMembers)>>
     ELSE <<>>)

\* every pushed entry takes its id from generateId
NewLogEntries(b, nid, task, updates) ==
    LET es == ChangeEntries(b, task, updates)
    IN  [i \in 1..Len(es) |->
            [id |-> nid + i - 1, action |-> es[i].action,
             oldValue |-> es[i].oldValue, newValue |-> es[i].newValue]]

\* UpdatedTask whose activityLog holds the new entries only
UpdatedTaskFreshLog(b, nid, task, updates) ==
    [id |-> Spread(task, updates, "id"),
     title |-> Spread(task, updates, "title"),
     description |-> Spread(task, updates, "description"),
     startDate |-> Spread(task, updates, "startDate"),
     endDate |-> Spread(task, updates, "endDate"),
     columnId |-> Spread(task, updates, "columnId"),
     tags |-> Spread(task, updates, "tags"),
     priority |-> Spread(task, updates, "priority"),
     assignedMembers |-> IF "assignedMembers" \in DOMAIN updates
                         THEN Some(updates.assignedMembers)
                         ELSE task.assignedMembers,
     activityLog |-> NewLogEntries(b, nid, task, updates)]

\* { ...task, ...updates, activityLog: [...task.activityLog, ...newLogEntries] }
UpdatedTask(b, nid, task, updates) ==
    [id |-> Spread(task, updates, "id"),
     title |-> Spread(task, updates, "title"),
     description |-> Spread(task, updates, "description"),
     startDate |-> Spread(task, updates, "startDate"),
     endDate |-> Spread(task, updates, "endDate"),
     columnId |-> Spread(task, updates, "columnId"),
     tags |-> Spread(task, updates, "tags"),
     priority |-> Spread(task, updates, "priority"),
     assignedMembers |-> IF "assignedMembers" \in DOMAIN updates
                         THEN Some(updates.assignedMembers)
                         ELSE task.assignedMembers,
     activityLog |-> task.activityLog \o NewLogEntries(b, nid, task, updates)]

\* handleUpdateTask for a 'temp-' id: no task has such an id, and newTaskColumnId
\* is null (it is only ever set to null), so `newTaskColumnId || task.columnId`
\* reads a property of undefined once the title is not blank
UpdateTempTask(b, updates) ==
    IF "title" \in DOMAIN updates /\ updates.title # Undefined /\ Trim(updates.title) # ""
    THEN Threw(b)
    ELSE Ignored(b)

\* handleUpdateTask without the block "If column changed, move task"
handleUpdateTaskNoMove(b, nid, taskId, updates) ==
    IF taskId = TempId
    THEN UpdateTempTask(b, updates)
    ELSE IF taskId \notin DOMAIN b.tasks
         THEN Ignored(b)
         ELSE LET task == b.tasks[taskId]
              IN  Updated([b EXCEPT
                      !.tasks = PutTask(b.tasks, taskId, UpdatedTask(b, nid, task, updates))],
                      Len(ChangeEntries(b, task, updates)))

handleUpdateTask(b, nid, taskId, updates) ==
    IF taskId = TempId
    THEN UpdateTempTask(b, updates)
    ELSE IF taskId \notin DOMAIN b.tasks
         THEN Ignored(b)
         ELSE LET task == b.tasks[taskId]
                  updatedTask == UpdatedTask(b, nid, task, updates)
                  newColumns ==
                      IF "columnId" \in DOMAIN updates /\ updates.columnId # task.columnId
                      THEN MoveToEnd(b.columns, task.columnId, updates.columnId, taskId)
                      ELSE b.columns
              IN  Updated([b EXCEPT !.columns = newColumns,
                                    !.tasks = PutTask(b.tasks, taskId, updatedTask)],
                          Len(ChangeEntries(b, task, updates)))

-----------------------------------------------------------------------------
(* Fresh boards *)

FreshColumns(setupTasks) ==
    << [id |-> 1, title |-> "Backlog", taskIds |-> <<>>],
       [id |-> 2, title |-> "To Do", taskIds |-> setupTasks],
       [id |-> 3, title |-> "In Progress", taskIds |-> <<>>],
       [id |-> 4, title |-> "Review", taskIds |-> <<>>],
       [id |-> 5, title |-> "Done", taskIds |-> <<>>] >>

\* createDefaultBoard: five empty columns
DefaultBoard ==
    [id |-> "board-1", title |-> "TaskFlow - Mein Projekt",
     columns |-> FreshColumns(<<>>),
     tasks |-> [i \in {} |-> 0],
     globalTags |-> [l \in {} |-> 0],
     teamIds |-> <<>>]

\* createNewBoard: the same columns and the task 'task-setup' in "To Do"
NewBoard ==
    [id |-> "board-2", title |-> "Neues Board",
     columns |-> FreshColumns(<<6>>),
     tasks |-> [i \in {6} |->
                  [id |-> 6, title |-> "Neues Board einrichten", description |-> "",
                   startDate |-> "", endDate |-> "", columnId |-> 2, tags |-> <<>>,
                   priority |-> "Hoch", assignedMembers |-> Some(<<>>),
                   activityLog |-> <<CreatedEntry(7)>>]],
     globalTags |-> [l \in {} |-> 0],
     teamIds |-> <<>>]

\* the first id generateId hands out in the model
FirstId == 8

-----------------------------------------------------------------------------
(* Inputs *)

Min(a, b) == IF a < b THEN a ELSE b

\* the columns the handlers are invoked on
TargetColumns(b) == {b.columns[i].id : i \in 1..Min(MaxTargets, Len(b.columns))}

AddTitles == {"Old"}
ColumnTitles == {"Doing"}
TagLabels == {"urgent"}
TagColors == {"blue", "red"}

\* titles that are empty after trimming
BlankTitles == {"", " "}
\* what the user may have typed in the "new task" input of a column
TypedTitles == AddTitles \cup BlankTitles

EmptyUpdate == [f \in {} |-> 0]

\* the field patches handleUpdateTask is invoked with
FieldPatches(b) ==
    {[title |-> "New"], [endDate |-> "2026-01-02"], [tags |-> <<"urgent">>],
     [tags |-> <<>>], [priority |-> "Hoch"], [assignedMembers |-> <<"m1">>]}
    \cup {[columnId |-> c] : c \in TargetColumns(b)}

\* the edits made in the TaskDetail form before it is saved
FormEdits(b) ==
    {EmptyUpdate, [title |-> "New"], [description |-> "text"], [priority |-> Undefined]}
    \cup {[columnId |-> c] : c \in TargetColumns(b)}

\* what TaskDetail.handleSave sends: every field of the form, here the task's
\* values with the fields of `patch` edited
FormUpdate(task, patch) ==
    [title |-> Spread(task, patch, "title"),
     description |-> Spread(task, patch, "description"),
     startDate |-> Spread(task, patch, "startDate"),
     endDate |-> Spread(task, patch, "endDate"),
     columnId |-> Spread(task, patch, "columnId"),
     tags |-> Spread(task, patch, "tags"),
     priority |-> Spread(task, patch, "priority"),
     assignedMembers |-> IF "assignedMembers" \in DOMAIN patch
                         THEN patch.assignedMembers
                         ELSE OrEmpty(task.assignedMembers)]

Op(name, task, target, text, updates) ==
    [op |-> name, task |-> task, target |-> target, text |-> text, updates |-> updates]

-----------------------------------------------------------------------------
(* The state machine *)

\* `null` of a board id or of a stored key
Null == "null"

\* storage before anything was saved
\* (boards: the rows of `boards`, last modified first, in localStorage mode
\* the list under taskflow_boards_list; items: the boards under the keys
\* taskflow_board_<id>; mode: USE_SUPABASE of App.tsx; cascade: whether the
\* tasks of a column are deleted with the column's row, which the schema
\* of the hosted store decides and the repository does not show)
EmptyStore ==
    [boards |-> <<>>, active |-> Null, columns |-> {}, tasks |-> {},
     tags |-> {}, taskTags |-> {}, taskAssignments |-> {}, boardTeams |-> {},
     cascade |-> FALSE, items |-> {}, mode |-> "supabase"]

\* the state of the components when they are mounted around board b
FreshView(b) ==
    [boardTitle |-> b.title, isEditingTitle |-> FALSE, filterTags |-> <<>>, isChecked |-> FALSE]

\* App and the components as they are mounted around board b, nothing awaiting
Mounted(b) ==
    /\ pending = <<>>
    /\ store = EmptyStore
    /\ app = [boards |-> <<b.id>>, deletingBoardId |-> Null]
    /\ view = FreshView(b)

Init ==
    /\ board \in {DefaultBoard, NewBoard}
    /\ nextId = FirstId
    /\ ops = 0
    /\ outcome = "none"
    /\ lastOp = Op("none", UnknownId, UnknownId, "", EmptyUpdate)
    /\ prev = board
    /\ Mounted(board)

\* a step of the program took place: what it installed with setBoard is
\* App's board from now on
Step(r, op) ==
    /\ ops < MaxOps
    /\ board' = r.board
    /\ nextId' = nextId + r.ids
    /\ outcome' = r.outcome
    /\ ops' = ops + 1
    /\ lastOp' = op
    /\ prev' = board

\* a handler of Board ran: the board it passed to onBoardUpdate becomes App's
\* board.  (Storage and the state of the other components are followed in the
\* specifications of App further down.)
Do(r, op) ==
    /\ Step(r, op)
    /\ UNCHANGED appVars

AddTask ==
    \E c \in TargetColumns(board), t \in AddTitles :
        Do(handleAddTask(board, nextId, c, t), Op("addTask", UnknownId, c, t, EmptyUpdate))

DragEnd ==
    \E a \in TaskIds(board), o \in TargetColumns(board) \cup TaskIds(board) :
        Do(handleDragEnd(board, a, o), Op("dragEnd", a, o, "", EmptyUpdate))

UpdateTask ==
    \E t \in TaskIds(board), u \in FieldPatches(board) \cup {EmptyUpdate} :
        Do(handleUpdateTask(board, nextId, t, u), Op("updateTask", t, UnknownId, "", u))

SaveTaskDetail ==
    \E t \in TaskIds(board), p \in FormEdits(board) :
        LET u == FormUpdate(board.tasks[t], p)
        IN  Do(handleUpdateTask(board, nextId, t, u), Op("saveTask", t, UnknownId, "", u))

DeleteTask ==
    \E t \in TaskIds(board) :
        Do(handleDeleteTask(board, t), Op("deleteTask", t, UnknownId, "", EmptyUpdate))

AddColumn ==
    Do(handleAddColumn(board, nextId), Op("addColumn", UnknownId, UnknownId, "", EmptyUpdate))

RenameColumn ==
    \E c \in TargetColumns(board), t \in ColumnTitles :
        Do(handleRenameColumn(board, c, t), Op("renameColumn", UnknownId, c, t, EmptyUpdate))

DeleteColumn ==
    \E c \in TargetColumns(board) :
        Do(handleDeleteColumn(board, c), Op("deleteColumn", UnknownId, c, "", EmptyUpdate))

GlobalTagUpdate ==
    \E l \in TagLabels, c \in TagColors :
        Do(handleGlobalTagUpdate(board, l, [label |-> l, color |-> c]),
           Op("upsertTag", UnknownId, UnknownId, l, EmptyUpdate))

DeleteTag ==
    \E l \in TagLabels :
        Do(handleDeleteTag(board, l), Op("deleteTag", UnknownId, UnknownId, l, EmptyUpdate))

Next ==
    \/ AddTask
    \/ DragEnd
    \/ UpdateTask
    \/ SaveTaskDetail
    \/ DeleteTask
    \/ AddColumn
    \/ RenameColumn
    \/ DeleteColumn
    \/ GlobalTagUpdate
    \/ DeleteTag

Spec == Init /\ [][Next]_vars

-----------------------------------------------------------------------------
(* The same handlers invoked with ids that are not in the board *)

AddTaskUnknown ==
    \E t \in AddTitles :
        Do(handleAddTask(board, nextId, UnknownId, t),
           Op("addTask", UnknownId, UnknownId, t, EmptyUpdate))

DragEndUnknown ==
    \E a \in TaskIds(board) \cup {UnknownId},
       o \in TargetColumns(board) \cup TaskIds(board) \cup {UnknownId, NullOver} :
        /\ (a = UnknownId) # (o \in {UnknownId, NullOver})
        /\ Do(handleDragEnd(board, a, o), Op("dragEnd", a, o, "", EmptyUpdate))

UpdateTaskUnknown ==
    \E t \in {UnknownId, TempId}, u \in {[title |-> "New"], [title |-> " "]} :
        Do(handleUpdateTask(board, nextId, t, u), Op("updateTask", t, UnknownId, "", u))

UpdateTaskUnknownColumn ==
    \E t \in TaskIds(board) :
        Do(handleUpdateTask(board, nextId, t, [columnId |-> UnknownId]),
           Op("updateTask", t, UnknownId, "", [columnId |-> UnknownId]))

DeleteTaskUnknown ==
    \E t \in {UnknownId, TempId} :
        Do(handleDeleteTask(board, t), Op("deleteTask", t, UnknownId, "", EmptyUpdate))

\* the delete of the last step, repeated with the same id
DeleteTaskAgain ==
    /\ lastOp.op = "deleteTask"
    /\ Do(handleDeleteTask(board, lastOp.task),
          Op("deleteTask", lastOp.task, UnknownId, "again", EmptyUpdate))

RenameColumnUnknown ==
    \E t \in ColumnTitles :
        Do(handleRenameColumn(board, UnknownId, t),
           Op("renameColumn", UnknownId, UnknownId, t, EmptyUpdate))

DeleteColumnUnknown ==
    Do(handleDeleteColumn(board, UnknownId),
       Op("deleteColumn", UnknownId, UnknownId, "", EmptyUpdate))

NextAny ==
    \/ AddTask
    \/ DragEnd
    \/ UpdateTask
    \/ DeleteTask
    \/ RenameColumn
    \/ DeleteColumn
    \/ AddTaskUnknown
    \/ DragEndUnknown
    \/ UpdateTaskUnknown
    \/ UpdateTaskUnknownColumn
    \/ DeleteTaskUnknown
    \/ DeleteTaskAgain
    \/ RenameColumnUnknown
    \/ DeleteColumnUnknown

SpecAny == Init /\ [][NextAny]_vars

-----------------------------------------------------------------------------
(* Adding tasks: the two components that call onAddTask, and the handler itself *)

ColumnAddTask ==
    \E c \in TargetColumns(board), t \in TypedTitles :
        Do(ColumnHandleAddTask(board, nextId, c, t),
           Op("columnAddTask", UnknownId, c, t, EmptyUpdate))

ListViewAddTask ==
    \E c \in TargetColumns(board), t \in TypedTitles :
        Do(ListViewHandleAddTask(board, nextId, c, t),
           Op("listViewAddTask", UnknownId, c, t, EmptyUpdate))

AddTaskBlank ==
    \E c \in TargetColumns(board), t \in BlankTitles :
        Do(handleAddTask(board, nextId, c, t), Op("addTask", UnknownId, c, t, EmptyUpdate))

NextTitles ==
    \/ ColumnAddTask
    \/ ListViewAddTask
    \/ AddTaskBlank
    \/ DeleteTask

SpecTitles == Init /\ [][NextTitles]_vars

-----------------------------------------------------------------------------
(* A board an earlier session left in storage, and the structural edits on it *)

\* createNewBoard, then: two tasks added, tags set on two tasks in TaskDetail,
\* three tags defined.  "bug" is carried by a task and has no definition,
\* "unused" is defined and carried by no task.
TaggedBoard ==
    LET b1 == handleAddTask(NewBoard, FirstId, 2, "Old").board
        b2 == handleAddTask(b1, FirstId + 2, 1, "Old").board
        b3 == handleUpdateTask(b2, FirstId + 4, 6, [tags |-> <<"bug", "urgent", "idea">>]).board
        b4 == handleUpdateTask(b3, FirstId + 5, FirstId, [tags |-> <<"urgent">>]).board
        b5 == handleGlobalTagUpdate(b4, "urgent", [label |-> "urgent", color |-> "red"]).board
        b6 == handleGlobalTagUpdate(b5, "idea", [label |-> "idea", color |-> "blue"]).board
    IN  handleGlobalTagUpdate(b6, "unused", [label |-> "unused", color |-> "blue"]).board

\* TaggedBoard after every column but "To Do" was deleted
SingleColumnBoard ==
    LET b1 == handleDeleteColumn(TaggedBoard, 1).board
        b2 == handleDeleteColumn(b1, 3).board
        b3 == handleDeleteColumn(b2, 4).board
    IN  handleDeleteColumn(b3, 5).board

SavedBoards == {TaggedBoard, SingleColumnBoard}

\* the next id of generateId: building TaggedBoard took six (two per added
\* task, one per log entry of the two updates)
FirstSavedId == FirstId + 6

\* the labels tags are defined and deleted under
SavedLabels == {"urgent", "bug", "unused"}

InitSaved ==
    /\ board \in SavedBoards
    /\ nextId = FirstSavedId
    /\ ops = 0
    /\ outcome = "none"
    /\ lastOp = Op("none", UnknownId, UnknownId, "", EmptyUpdate)
    /\ prev = board
    /\ Mounted(board)

\* (the tag handed to the handler is kept in the `updates` field of lastOp)
GlobalTagUpdateSaved ==
    \E l \in SavedLabels, c \in TagColors :
        Do(handleGlobalTagUpdate(board, l, [label |-> l, color |-> c]),
           Op("upsertTagSaved", UnknownId, UnknownId, l, [label |-> l, color |-> c]))

DeleteTagSaved ==
    \E l \in SavedLabels :
        Do(handleDeleteTag(board, l), Op("deleteTag", UnknownId, UnknownId, l, EmptyUpdate))

\* the tag deletion of the last step, repeated with the same label
DeleteTagAgain ==
    /\ lastOp.op = "deleteTag"
    /\ Do(handleDeleteTag(board, lastOp.text),
          Op("deleteTagAgain", UnknownId, UnknownId, lastOp.text, EmptyUpdate))

NextSaved ==
    \/ DeleteColumn
    \/ AddColumn
    \/ RenameColumn
    \/ DeleteTask
    \/ GlobalTagUpdateSaved
    \/ DeleteTagSaved
    \/ DeleteTagAgain

SpecSaved == InitSaved /\ [][NextSaved]_vars

-----------------------------------------------------------------------------
(* Properties *)

\* the indices of the columns whose taskIds contain task t
ColumnsHolding(b, t) == {i \in 1..Len(b.columns) : Includes(b.columns[i].taskIds, t)}

\* how often x occurs in s
Occurrences(s, x) == Cardinality({i \in 1..Len(s) : s[i] = x})

IsPrefix(s, t) == Len(s) <= Len(t) /\ SubSeq(t, 1, Len(s)) = s

\* the task the last handler was invoked on changed its column
LastOpChangedColumn ==
    /\ outcome = "updated"
    /\ lastOp.task \in TaskIds(prev) \cap TaskIds(board)
    /\ prev.tasks[lastOp.task].columnId # board.tasks[lastOp.task].columnId

\* C1: after any sequence of board operations on ids of the current board, every
\* task is in the taskIds of exactly one column, and its columnId is that
\* column's id.
C1_TaskInExactlyOneColumn ==
    \A t \in TaskIds(board) :
        \E i \in 1..Len(board.columns) :
            /\ ColumnsHolding(board, t) = {i}
            /\ board.columns[i].id = board.tasks[t].columnId

\* a task was moved to another column by handleUpdateTask while the board
\* holds a second task
C1_Witness ==
    /\ lastOp.op \in {"updateTask", "saveTask"}
    /\ LastOpChangedColumn
    /\ Cardinality(TaskIds(board)) >= 2

\* C2: every id in every column's taskIds is a key of tasks.
C2_ColumnIdsAreTasks ==
    \A i \in 1..Len(board.columns) : Range(board.columns[i].taskIds) \subseteq TaskIds(board)

\* a task was deleted from a column that keeps another task
C2_Witness ==
    /\ lastOp.op = "deleteTask"
    /\ outcome = "updated"
    /\ lastOp.task \notin TaskIds(board)
    /\ \E i \in 1..Len(board.columns) :
          /\ prev.columns[i].id = prev.tasks[lastOp.task].columnId
          /\ board.columns[i].taskIds # <<>>

\* C3: no task id occurs twice, neither inside one column nor in two columns.
C3_NoDuplicateTaskId ==
    /\ \A i \in 1..Len(board.columns) :
          \A t \in Range(board.columns[i].taskIds) :
              Occurrences(board.columns[i].taskIds, t) = 1
    /\ \A i, j \in 1..Len(board.columns) :
          i # j => Range(board.columns[i].taskIds) \cap Range(board.columns[j].taskIds) = {}

\* a task was dropped on a task of another column and now shares its column
C3_Witness ==
    /\ lastOp.op = "dragEnd"
    /\ lastOp.target \in TaskIds(prev)
    /\ LastOpChangedColumn
    /\ board.tasks[lastOp.task].columnId = board.tasks[lastOp.target].columnId

\* C4: the activity log is append-only: for every operation and every task that
\* exists before and after it, the log before is a prefix of the log after.
C4_ActivityLogAppendOnly ==
    \A t \in TaskIds(prev) \cap TaskIds(board) :
        IsPrefix(prev.tasks[t].activityLog, board.tasks[t].activityLog)

\* an update appended to a log that already held two entries
C4_Witness ==
    /\ lastOp.op \in {"updateTask", "saveTask"}
    /\ outcome = "updated"
    /\ lastOp.task \in TaskIds(prev)
    /\ Len(prev.tasks[lastOp.task].activityLog) >= 2
    /\ Len(board.tasks[lastOp.task].activityLog) > Len(prev.tasks[lastOp.task].activityLog)

\* the index (from 1) of column id in b.columns
ColumnAt(b, id) == CHOOSE i \in 1..Len(b.columns) : b.columns[i].id = id

\* the taskIds of column id in b
TaskIdsOf(b, id) == b.columns[ColumnAt(b, id)].taskIds

\* s without x, the other elements in their order
Without(s, x) == SelectSeq(s, LAMBDA y : y # x)

\* the position (from 1) of x in s
PositionOf(s, x) == CHOOSE i \in 1..Len(s) : s[i] = x

\* s with x inserted so that it stands at position k
InsertedAt(s, k, x) == SubSeq(s, 1, k - 1) \o <<x>> \o SubSeq(s, k, Len(s))

\* the columns of board are those of prev, with the taskIds of src and dst
\* replaced and everything else as it was
OnlyTaskIdsChanged(src, newSrc, dst, newDst) ==
    /\ Len(board.columns) = Len(prev.columns)
    /\ \A i \in 1..Len(prev.columns) :
          /\ board.columns[i].id = prev.columns[i].id
          /\ board.columns[i].title = prev.columns[i].title
          /\ board.columns[i].taskIds =
                IF prev.columns[i].id = src THEN newSrc
                ELSE IF prev.columns[i].id = dst THEN newDst
                ELSE prev.columns[i].taskIds

\* the last handler was handleDragEnd for a task of the board
Dragged == lastOp.op = "dragEnd" /\ lastOp.task \in TaskIds(prev)

\* ... dropped on a column other than the task's
DroppedOnOtherColumn ==
    /\ Dragged
    /\ lastOp.target \in ColumnIds(prev)
    /\ prev.tasks[lastOp.task].columnId # lastOp.target

\* ... dropped on a task of another column
DroppedOnTaskOfOtherColumn ==
    /\ Dragged
    /\ lastOp.target \in TaskIds(prev)
    /\ prev.tasks[lastOp.task].columnId # prev.tasks[lastOp.target].columnId

\* ... dropped on a task of its own column
DroppedOnTaskOfSameColumn ==
    /\ Dragged
    /\ lastOp.target \in TaskIds(prev)
    /\ prev.tasks[lastOp.task].columnId = prev.tasks[lastOp.target].columnId

\* every task but t is as it was, and t differs at most in its columnId
OnlyColumnIdOf(t, c) ==
    /\ TaskIds(board) = TaskIds(prev)
    /\ board.tasks = [prev.tasks EXCEPT ![t].columnId = c]

\* C5: dropping a task on a column other than its own removes the id from the
\* source column, appends it as the last element of the destination column,
\* sets the task's columnId to the destination, and keeps the order of all
\* other ids in both columns.
C5_DropOnColumnAppends ==
    DroppedOnOtherColumn =>
        LET t == lastOp.task
            src == prev.tasks[t].columnId
            dst == lastOp.target
        IN  /\ outcome = "updated"
            /\ OnlyTaskIdsChanged(src, Without(TaskIdsOf(prev, src), t),
                                  dst, Append(TaskIdsOf(prev, dst), t))
            /\ OnlyColumnIdOf(t, dst)

\* a task left a column that keeps a task and was appended behind another one
C5_Witness ==
    /\ DroppedOnOtherColumn
    /\ outcome = "updated"
    /\ Len(TaskIdsOf(prev, prev.tasks[lastOp.task].columnId)) >= 2
    /\ Len(TaskIdsOf(board, lastOp.target)) >= 2
    /\ TaskIdsOf(board, lastOp.target)[Len(TaskIdsOf(board, lastOp.target))] = lastOp.task

\* C6: dropping a task on a task of another column removes the id from the
\* source column, inserts it in the destination column at the index the
\* reference task had (the reference and all later tasks shift down by one),
\* and sets the moved task's columnId to the destination column.
C6_DropOnTaskInsertsAtReference ==
    DroppedOnTaskOfOtherColumn =>
        LET t == lastOp.task
            src == prev.tasks[t].columnId
            dst == prev.tasks[lastOp.target].columnId
            k == PositionOf(TaskIdsOf(prev, dst), lastOp.target)
        IN  /\ outcome = "updated"
            /\ OnlyTaskIdsChanged(src, Without(TaskIdsOf(prev, src), t),
                                  dst, InsertedAt(TaskIdsOf(prev, dst), k, t))
            /\ TaskIdsOf(board, dst)[k] = t
            /\ TaskIdsOf(board, dst)[k + 1] = lastOp.target
            /\ OnlyColumnIdOf(t, dst)

\* the reference task was not the first of its column: a task stays in front
\* of the moved one and the reference follows it
C6_Witness ==
    /\ DroppedOnTaskOfOtherColumn
    /\ outcome = "updated"
    /\ PositionOf(TaskIdsOf(prev, prev.tasks[lastOp.target].columnId), lastOp.target) >= 2

\* C7: dropping a task on a task of its own column reorders only that column:
\* the moved task ends at the index the reference task had, the other tasks
\* keep their relative order, the sequence stays a permutation of the
\* original, no columnId changes; [A,B,C] with A moved onto C gives [B,C,A].
C7_ReorderWithinColumn ==
    DroppedOnTaskOfSameColumn =>
        LET t == lastOp.task
            col == prev.tasks[t].columnId
            old == TaskIdsOf(prev, col)
            new == TaskIdsOf(board, col)
        IN  /\ outcome = "updated"
            /\ OnlyTaskIdsChanged(col, new, col, new)
            /\ new[PositionOf(old, lastOp.target)] = t
            /\ Without(new, t) = Without(old, t)
            /\ Len(new) = Len(old)
            /\ \A x \in Range(old) : Occurrences(new, x) = Occurrences(old, x)
            /\ board.tasks = prev.tasks
            /\ (Len(old) = 3 /\ t = old[1] /\ lastOp.target = old[3]
                    => new = <<old[2], old[3], old[1]>>)

\* the first of three tasks was dropped on the third
C7_Witness ==
    /\ DroppedOnTaskOfSameColumn
    /\ outcome = "updated"
    /\ Len(TaskIdsOf(prev, prev.tasks[lastOp.task].columnId)) = 3
    /\ lastOp.task = TaskIdsOf(prev, prev.tasks[lastOp.task].columnId)[1]
    /\ lastOp.target = TaskIdsOf(prev, prev.tasks[lastOp.task].columnId)[3]
    /\ TaskIdsOf(board, prev.tasks[lastOp.task].columnId)[3] = lastOp.task

\* the task was dropped on itself or on the column it is in
DroppedOnOwnPosition ==
    /\ Dragged
    /\ \/ lastOp.target = lastOp.task
       \/ lastOp.target = prev.tasks[lastOp.task].columnId

\* C8: a move whose destination is the task's current position (dropped on
\* itself or on its own column) leaves every column's taskIds and the tasks
\* map as they were.
C8_MoveToOwnPositionKeepsBoard ==
    DroppedOnOwnPosition =>
        /\ board.columns = prev.columns
        /\ board.tasks = prev.tasks

\* a task of a column with two tasks was dropped on that column
C8_Witness ==
    /\ DroppedOnOwnPosition
    /\ lastOp.target = prev.tasks[lastOp.task].columnId
    /\ Len(TaskIdsOf(prev, lastOp.target)) >= 2

\* the last handler was handleAddTask for a column of the board
AddedToColumn == lastOp.op = "addTask" /\ lastOp.target \in ColumnIds(prev)

\* C9: addTask(columnId, title) on an existing column adds exactly one task with
\* empty description, dates and tags, the given columnId and a log of exactly
\* one `created` entry; its id is appended as the last element of the column;
\* every other column and every task that existed is unchanged.
C9_AddTaskAppendsNewTask ==
    AddedToColumn =>
        \E n \in TaskIds(board) \ TaskIds(prev) :
            /\ outcome = "updated"
            /\ TaskIds(board) = TaskIds(prev) \cup {n}
            /\ \A t \in TaskIds(prev) : board.tasks[t] = prev.tasks[t]
            /\ board.tasks[n].id = n
            /\ board.tasks[n].title = lastOp.text
            /\ board.tasks[n].description = ""
            /\ board.tasks[n].startDate = ""
            /\ board.tasks[n].endDate = ""
            /\ board.tasks[n].tags = <<>>
            /\ board.tasks[n].columnId = lastOp.target
            /\ Len(board.tasks[n].activityLog) = 1
            /\ board.tasks[n].activityLog[1].action = "created"
            /\ OnlyTaskIdsChanged(lastOp.target, Append(TaskIdsOf(prev, lastOp.target), n),
                                  lastOp.target, Append(TaskIdsOf(prev, lastOp.target), n))

\* a task was added to a column that held a task, while another column holds one
C9_Witness ==
    /\ AddedToColumn
    /\ outcome = "updated"
    /\ Len(TaskIdsOf(prev, lastOp.target)) >= 1
    /\ \E i \in 1..Len(prev.columns) :
          prev.columns[i].id # lastOp.target /\ prev.columns[i].taskIds # <<>>

\* handleDragEnd was given a task id, or a drop target, that the board lacks
MovedUnknown ==
    /\ lastOp.op = "dragEnd"
    /\ \/ lastOp.task \notin TaskIds(prev)
       \/ lastOp.target \notin ColumnIds(prev) \cup TaskIds(prev)

AddedToUnknownColumn == lastOp.op = "addTask" /\ lastOp.target \notin ColumnIds(prev)

UpdatedUnknownTask == lastOp.op = "updateTask" /\ lastOp.task \notin TaskIds(prev)

RenamedUnknownColumn == lastOp.op = "renameColumn" /\ lastOp.target \notin ColumnIds(prev)

DeletedUnknownColumn == lastOp.op = "deleteColumn" /\ lastOp.target \notin ColumnIds(prev)

GivenUnknownId ==
    \/ MovedUnknown
    \/ AddedToUnknownColumn
    \/ UpdatedUnknownTask
    \/ RenamedUnknownColumn
    \/ DeletedUnknownColumn

UpdatedToUnknownColumn ==
    /\ lastOp.op = "updateTask"
    /\ lastOp.task \in TaskIds(prev)
    /\ "columnId" \in DOMAIN lastOp.updates
    /\ lastOp.updates.columnId \notin ColumnIds(prev)

\* C11: every operation is all-or-nothing; in particular, when an id the
\* operation references is absent from the board (addTask with an unknown
\* columnId, updateTask with an unknown taskId or with a new columnId that
\* names no column, moveTask with an unknown task or destination,
\* renameColumn/deleteColumn with an unknown columnId) the resulting columns,
\* tasks and globalTags equal those of the input.
C11_UnknownIdLeavesBoard ==
    GivenUnknownId \/ UpdatedToUnknownColumn =>
        /\ board.columns = prev.columns
        /\ board.tasks = prev.tasks
        /\ board.globalTags = prev.globalTags

\* a task was to be added with a title that is empty after trimming
AddedBlankTitle ==
    /\ lastOp.op \in {"addTask", "columnAddTask", "listViewAddTask"}
    /\ Trim(lastOp.text) = ""

\* C12: addTask with a title that is empty after trimming is rejected and adds
\* no task to the board, whichever entry point invokes it (Board.handleAddTask
\* directly, or through Column.handleAddTask / ListView.handleAddTask).  The
\* handlers return nothing: a rejected call is one that does not reach
\* onBoardUpdate.
C12_BlankTitleAddsNoTask ==
    AddedBlankTitle =>
        /\ outcome # "updated"
        /\ board.tasks = prev.tasks
        /\ board.columns = prev.columns

\* the last handler was handleUpdateTask for a task of the board
UpdatedKnownTask ==
    /\ lastOp.op \in {"updateTask", "saveTask"}
    /\ lastOp.task \in TaskIds(prev)

\* the fields of Task an update can carry
TaskFields ==
    {"title", "description", "startDate", "endDate", "columnId", "tags", "priority",
     "assignedMembers"}

\* field f is present in updates with a value other than the task's; tags and
\* assignedMembers are compared as sets, and a value cleared to undefined or to
\* the empty string differs from a set one
FieldChanged(task, updates, f) ==
    /\ f \in DOMAIN updates
    /\ IF f = "tags" THEN Range(updates.tags) # Range(task.tags)
       ELSE IF f = "assignedMembers"
            THEN Range(updates.assignedMembers) # Range(OrEmpty(task.assignedMembers))
            ELSE updates[f] # task[f]

ChangedFields(task, updates) == {f \in TaskFields : FieldChanged(task, updates, f)}

\* the action an entry for field f carries
ActionOf(f) ==
    CASE f = "title" -> "title_changed"
      [] f = "description" -> "description_changed"
      [] f \in {"startDate", "endDate"} -> "dates_changed"
      [] f = "columnId" -> "column_changed"
      [] f = "priority" -> "priority_changed"
      [] f \in {"tags", "assignedMembers"} -> "tags_changed"

\* the entries the last handler appended to the log of task t
Appended(t) ==
    SubSeq(board.tasks[t].activityLog, Len(prev.tasks[t].activityLog) + 1,
           Len(board.tasks[t].activityLog))

\* C13: updateTask appends exactly one activity-log entry per changed field and
\* none for unchanged fields, each with the action of its field, so the number
\* of appended entries equals the number of changed fields; a title change
\* records the old and the new title.
C13_OneEntryPerChangedField ==
    UpdatedKnownTask =>
        LET t == lastOp.task
            changed == ChangedFields(prev.tasks[t], lastOp.updates)
            new == Appended(t)
        IN  /\ Len(new) = Cardinality(changed)
            /\ \A a \in {ActionOf(f) : f \in TaskFields} :
                  Cardinality({i \in 1..Len(new) : new[i].action = a})
                      = Cardinality({f \in changed : ActionOf(f) = a})
            /\ "title" \in changed =>
                  \E i \in 1..Len(new) :
                      /\ new[i].action = "title_changed"
                      /\ new[i].oldValue = <<prev.tasks[t].title>>
                      /\ new[i].newValue = <<lastOp.updates.title>>

\* every field the update carries has the value the task has
CarriesNoChange(task, updates) ==
    \A f \in DOMAIN updates :
        IF f = "assignedMembers"
        THEN Some(updates.assignedMembers) = task.assignedMembers
        ELSE updates[f] = task[f]

\* C14: updateTask with empty field changes, or with field values all equal to
\* the task's current values, gives a board equal to the input in columns,
\* tasks and globalTags and appends no activity-log entry to any task.
C14_UpdateWithoutChangeKeepsBoard ==
    UpdatedKnownTask /\ CarriesNoChange(prev.tasks[lastOp.task], lastOp.updates) =>
        /\ board.columns = prev.columns
        /\ board.tasks = prev.tasks
        /\ board.globalTags = prev.globalTags
        /\ \A t \in TaskIds(prev) : board.tasks[t].activityLog = prev.tasks[t].activityLog

\* the TaskDetail form was saved unedited, all eight fields sent, for a task
\* that had been updated before
C14_Witness ==
    /\ lastOp.op = "saveTask"
    /\ lastOp.task \in TaskIds(prev)
    /\ DOMAIN lastOp.updates = TaskFields
    /\ CarriesNoChange(prev.tasks[lastOp.task], lastOp.updates)
    /\ Len(prev.tasks[lastOp.task].activityLog) >= 2
    /\ outcome = "updated"

\* handleUpdateTask was given, for a task of the board, the id of another column
UpdatedToOtherColumn ==
    /\ UpdatedKnownTask
    /\ "columnId" \in DOMAIN lastOp.updates
    /\ lastOp.updates.columnId \in ColumnIds(prev)
    /\ lastOp.updates.columnId # prev.tasks[lastOp.task].columnId

\* C15: updateTask that changes a task's columnId to another existing column
\* removes the task id from the old column's taskIds and appends it as the
\* last element of the new column's taskIds, in the same step in which the
\* task's columnId changes; all other columns and the order of the remaining
\* tasks are unchanged.
C15_UpdateColumnMovesTask ==
    UpdatedToOtherColumn =>
        LET t == lastOp.task
            src == prev.tasks[t].columnId
            dst == lastOp.updates.columnId
        IN  /\ outcome = "updated"
            /\ board.tasks[t].columnId = dst
            /\ OnlyTaskIdsChanged(src, Without(TaskIdsOf(prev, src), t),
                                  dst, Append(TaskIdsOf(prev, dst), t))
            /\ TaskIds(board) = TaskIds(prev)
            /\ \A o \in TaskIds(prev) \ {t} : board.tasks[o] = prev.tasks[o]

\* an update moved a task out of a column that keeps a task, behind the task
\* of another column
C15_Witness ==
    /\ UpdatedToOtherColumn
    /\ outcome = "updated"
    /\ Len(TaskIdsOf(prev, prev.tasks[lastOp.task].columnId)) >= 2
    /\ Len(TaskIdsOf(prev, lastOp.updates.columnId)) >= 1
    /\ TaskIdsOf(board, lastOp.updates.columnId)[Len(TaskIdsOf(board, lastOp.updates.columnId))]
          = lastOp.task

\* the content fields of a task: title, description, dates, column, tags, priority
ContentFields ==
    {"title", "description", "startDate", "endDate", "columnId", "tags", "priority"}

\* task t exists before and after the last handler and differs in a content field
ContentChanged(t) ==
    /\ t \in TaskIds(prev) \cap TaskIds(board)
    /\ \E f \in ContentFields : board.tasks[t][f] # prev.tasks[t][f]

\* C16: every operation that changes a content field of an existing task
\* (title, description, dates, column, tags, priority) appends at least one
\* activity-log entry to that task in the same step; this covers all
\* operations, including a drag-and-drop move of a task to another column and
\* deleteGlobalTag removing a label from a task's tags.
C16_ContentChangeIsLogged ==
    \A t \in TaskIds(prev) \cap TaskIds(board) :
        ContentChanged(t) =>
            Len(board.tasks[t].activityLog) > Len(prev.tasks[t].activityLog)

\* C17: deleteTask removes the task id from `tasks` and from its column's
\* taskIds and changes nothing else; deleteTask on a task id that is not in
\* the board is a no-op and no error, so applying deleteTask twice with the
\* same id gives the same board as applying it once.
C17_DeleteTaskIdempotent ==
    lastOp.op = "deleteTask" =>
        IF lastOp.task \in TaskIds(prev)
        THEN LET t == lastOp.task
             IN  /\ outcome = "updated"
                 /\ board.tasks = [i \in TaskIds(prev) \ {t} |-> prev.tasks[i]]
                 /\ board.columns =
                       [i \in 1..Len(prev.columns) |->
                           IF prev.columns[i].id = prev.tasks[t].columnId
                           THEN [prev.columns[i] EXCEPT !.taskIds = Without(@, t)]
                           ELSE prev.columns[i]]
                 /\ board = [prev EXCEPT !.tasks = board.tasks, !.columns = board.columns]
        ELSE /\ outcome = "ignored"
             /\ board = prev

\* a task was deleted, and deleted once more, on a board that keeps another task
C17_Witness ==
    /\ lastOp.op = "deleteTask"
    /\ lastOp.text = "again"
    /\ lastOp.task \notin TaskIds(prev) \cup {UnknownId, TempId}
    /\ outcome = "ignored"
    /\ TaskIds(board) # {}

\* the last handler was handleDeleteColumn for a column of the board
DeletedKnownColumn == lastOp.op = "deleteColumn" /\ lastOp.target \in ColumnIds(prev)

\* C18: deleteColumn removes the column from `columns` and removes from `tasks`
\* exactly the tasks listed in that column's taskIds (no other task is
\* removed, the other columns keep their order and taskIds); deleting the only
\* remaining column leaves `columns` empty and no task that was anchored to it
\* in `tasks`.
C18_DeleteColumnCascades ==
    DeletedKnownColumn =>
        LET c == lastOp.target
            k == ColumnAt(prev, c)
            gone == Range(TaskIdsOf(prev, c))
        IN  /\ outcome = "updated"
            /\ Len(board.columns) = Len(prev.columns) - 1
            /\ \A i \in 1..Len(board.columns) :
                  board.columns[i] = prev.columns[IF i < k THEN i ELSE i + 1]
            /\ TaskIds(board) = TaskIds(prev) \ gone
            /\ \A t \in TaskIds(board) : board.tasks[t] = prev.tasks[t]
            /\ \A t \in TaskIds(prev) : prev.tasks[t].columnId = c => t \notin TaskIds(board)
            /\ board.globalTags = prev.globalTags
            /\ Len(prev.columns) = 1 => board.columns = <<>>

\* the only remaining column, holding two tasks, was deleted
C18_Witness ==
    /\ DeletedKnownColumn
    /\ Len(prev.columns) = 1
    /\ Len(prev.columns[1].taskIds) = 2
    /\ board.columns = <<>>
    /\ TaskIds(board) = {}

\* the last handler was handleDeleteTag
DeletedTag == lastOp.op \in {"deleteTag", "deleteTagAgain"}

\* the tasks of b that carry label l
Carrying(b, l) == {t \in TaskIds(b) : Includes(b.tasks[t].tags, l)}

\* C19: deleteGlobalTag(label) removes the key from globalTags and removes the
\* label from the tags of every task, leaving all other labels, their order,
\* and all columns unchanged; it succeeds when no task uses the label, and
\* applying it twice gives the same board as applying it once.
C19_DeleteGlobalTag ==
    DeletedTag =>
        LET l == lastOp.text
        IN  /\ outcome = "updated"
            /\ DOMAIN board.globalTags = DOMAIN prev.globalTags \ {l}
            /\ \A k \in DOMAIN board.globalTags : board.globalTags[k] = prev.globalTags[k]
            /\ TaskIds(board) = TaskIds(prev)
            /\ \A t \in TaskIds(prev) :
                  board.tasks[t] = [prev.tasks[t] EXCEPT !.tags = Without(@, l)]
            /\ board.columns = prev.columns
            /\ lastOp.op = "deleteTagAgain" => board = prev

\* a defined label carried by two tasks was deleted, and a task keeps two
\* other labels
C19_Witness ==
    /\ lastOp.op = "deleteTag"
    /\ lastOp.text \in DOMAIN prev.globalTags
    /\ Cardinality(Carrying(prev, lastOp.text)) = 2
    /\ Carrying(board, lastOp.text) = {}
    /\ \E t \in TaskIds(board) : Len(board.tasks[t].tags) = 2

\* the labels tasks of b carry that globalTags does not define
OrphanedLabels(b) ==
    {l \in UNION {Range(b.tasks[t].tags) : t \in TaskIds(b)} : l \notin DOMAIN b.globalTags}

\* C20: addColumn, renameColumn and upsertGlobalTag leave `tasks` and every
\* existing column's taskIds unchanged: addColumn only appends one column with
\* empty taskIds at the end, renameColumn only changes the title of the named
\* column, and upsertGlobalTag only inserts or replaces the globalTags entry
\* under the given label (never failing because some task carries a label
\* missing from globalTags).
C20_StructuralEditsKeepTasks ==
    /\ lastOp.op = "addColumn" =>
          /\ outcome = "updated"
          /\ Len(board.columns) = Len(prev.columns) + 1
          /\ SubSeq(board.columns, 1, Len(prev.columns)) = prev.columns
          /\ board.columns[Len(board.columns)].taskIds = <<>>
          /\ board.columns[Len(board.columns)].id \notin ColumnIds(prev)
          /\ board = [prev EXCEPT !.columns = board.columns]
    /\ lastOp.op = "renameColumn" /\ lastOp.target \in ColumnIds(prev) =>
          /\ outcome = "updated"
          /\ board.columns =
                [i \in 1..Len(prev.columns) |->
                    IF prev.columns[i].id = lastOp.target
                    THEN [prev.columns[i] EXCEPT !.title = lastOp.text]
                    ELSE prev.columns[i]]
          /\ board = [prev EXCEPT !.columns = board.columns]
    /\ lastOp.op = "upsertTagSaved" =>
          /\ outcome = "updated"
          /\ DOMAIN board.globalTags = DOMAIN prev.globalTags \cup {lastOp.text}
          /\ board.globalTags[lastOp.text] = lastOp.updates
          /\ \A k \in DOMAIN prev.globalTags \ {lastOp.text} :
                board.globalTags[k] = prev.globalTags[k]
          /\ board = [prev EXCEPT !.globalTags = board.globalTags]

\* the definition of a label was replaced while a task carries a label that
\* has no definition
C20_Witness ==
    /\ lastOp.op = "upsertTagSaved"
    /\ outcome = "updated"
    /\ lastOp.text \in DOMAIN prev.globalTags
    /\ prev.globalTags[lastOp.text] # board.globalTags[lastOp.text]
    /\ OrphanedLabels(board) # {}
    /\ Cardinality(DOMAIN board.globalTags) >= 3

-----------------------------------------------------------------------------
(* The hosted store (utils/storage.ts, second module, lines 475-1364): the  *)
(* tables as sets of rows, and the statements saveBoard and loadBoard send. *)
(* The UUIDs of one board's columns and tasks occur in no other board; the  *)
(* model's integers do, so a row is identified by its board and its id.     *)

\* upsert into `boards`; loadBoardsList orders by last_modified, newest first
upsertBoard(st, b) ==
    [st EXCEPT !.boards = <<[id |-> b.id, title |-> b.title]>>
                            \o SelectSeq(@, LAMBDA r : r.id # b.id)]

\* the ids of the tasks whose rows go with the column rows of board boardId
CascadedTasks(st, boardId) ==
    IF st.cascade
    THEN {r.id : r \in {x \in st.tasks :
                          /\ x.board = boardId
                          /\ \E c \in st.columns : c.board = boardId /\ c.id = x.column}}
    ELSE {}

\* saveColumns, first statement: delete from columns where board_id = boardId
deleteColumns(st, boardId) ==
    LET gone == CascadedTasks(st, boardId)
    IN  [st EXCEPT !.columns = {c \in @ : c.board # boardId},
                   !.tasks = {r \in @ : ~(r.board = boardId /\ r.id \in gone)},
                   !.taskTags = {r \in @ : ~(r.board = boardId /\ r.task \in gone)},
                   !.taskAssignments = {r \in @ : ~(r.board = boardId /\ r.task \in gone)}]

\* the rows saveColumns inserts: position is the index in board.columns
ColumnRows(b) ==
    {[id |-> b.columns[i].id, board |-> b.id, title |-> b.columns[i].title,
      position |-> i - 1] : i \in 1..Len(b.columns)}

\* saveColumns, second statement: the insert fails as a whole when a row with
\* one of the ids exists
insertColumns(st, b) ==
    IF \E c \in st.columns : c.board = b.id /\ c.id \in ColumnIds(b)
    THEN [store |-> st, ok |-> FALSE]
    ELSE [store |-> [st EXCEPT !.columns = @ \cup ColumnRows(b)], ok |-> TRUE]

\* the labels `tags` has for the board
StoredLabels(st, boardId) == {g.label : g \in {x \in st.tags : x.board = boardId}}

\* saveTasks: every task of the board is upserted (position 0), and its tag
\* and member relations are rewritten when the task has any
saveTasks(st, b) ==
    LET ids == TaskIds(b)
        tagged == {t \in ids : Len(b.tasks[t].tags) > 0}
        assigned == {t \in ids : Len(OrEmpty(b.tasks[t].assignedMembers)) > 0}
    IN  [st EXCEPT
            !.tasks = {r \in @ : ~(r.board = b.id /\ r.id \in ids)}
                      \cup {[id |-> t, board |-> b.id, column |-> b.tasks[t].columnId,
                             data |-> b.tasks[t]] : t \in ids},
            !.taskTags = {r \in @ : ~(r.board = b.id /\ r.task \in tagged)}
                         \cup UNION {{[board |-> b.id, task |-> t, label |-> l] :
                                        l \in Range(b.tasks[t].tags)
                                                \cap StoredLabels(st, b.id)} :
                                     t \in tagged},
            !.taskAssignments = {r \in @ : ~(r.board = b.id /\ r.task \in assigned)}
                                \cup UNION {{[board |-> b.id, task |-> t, member |-> m] :
                                               m \in Range(OrEmpty(b.tasks[t].assignedMembers))} :
                                            t \in assigned}]

\* saveTags: every tag of board.globalTags is upserted on (board_id, label)
saveTags(st, b) ==
    [st EXCEPT !.tags = {g \in @ : ~(g.board = b.id /\ g.label \in DOMAIN b.globalTags)}
                        \cup {[board |-> b.id, label |-> l, color |-> b.globalTags[l].color] :
                                l \in DOMAIN b.globalTags}]

\* saveBoardTeams, which saveBoard calls if (board.teamIds && board.teamIds.length > 0)
saveBoardTeams(st, b) ==
    IF Len(b.teamIds) > 0
    THEN [st EXCEPT !.boardTeams = {r \in @ : r.board # b.id}
                                   \cup {[board |-> b.id, team |-> m] : m \in Range(b.teamIds)}]
    ELSE st

\* saveBoard after saveColumns: saveTasks, saveTags, saveBoardTeams
saveRest(st, b) == saveBoardTeams(saveTags(saveTasks(st, b), b), b)

\* saveBoard with no other statement in between
saveBoard(st, b) ==
    LET r == insertColumns(deleteColumns(upsertBoard(st, b), b.id), b)
    IN  IF r.ok THEN saveRest(r.store, b) ELSE r.store

\* the column rows of a board in the order of `position`
\* (the rows of one board stem from one insert, so their positions differ)
SortedColumns(rows) ==
    [i \in 1..Cardinality(rows) |->
        CHOOSE c \in rows : Cardinality({d \in rows : d.position < c.position}) = i - 1]

\* the orders in which a select without `order` may return the rows
Orders(rows) ==
    {q \in [1..Cardinality(rows) -> {r.id : r \in rows}] :
        \A i, j \in DOMAIN q : i # j => q[i] # q[j]}

\* some enumeration of a set (the order of relation rows is not defined)
SeqOf(S) == CHOOSE q \in [1..Cardinality(S) -> S] : \A i, j \in DOMAIN q : i # j => q[i] # q[j]

\* loadBoard(boardId), `order` being the order in which the select on `tasks`
\* returned the ids; None (null) when the board has no row (.single() errors)
loadBoard(st, boardId, order) ==
    IF ~\E i \in 1..Len(st.boards) : st.boards[i].id = boardId
    THEN None
    ELSE
    LET row == st.boards[CHOOSE i \in 1..Len(st.boards) : st.boards[i].id = boardId]
        cols == SortedColumns({c \in st.columns : c.board = boardId})
        rows == {r \in st.tasks : r.board = boardId}
        rowOf(t) == CHOOSE r \in rows : r.id = t
    IN  Some(
        [id |-> row.id,
         title |-> row.title,
         columns |-> [i \in 1..Len(cols) |->
                        [id |-> cols[i].id, title |-> cols[i].title,
                         taskIds |-> SelectSeq(order, LAMBDA t : rowOf(t).column = cols[i].id)]],
         tasks |-> [t \in {r.id : r \in rows} |->
                      [rowOf(t).data EXCEPT
                          !.columnId = rowOf(t).column,
                          !.tags = SeqOf({r.label : r \in {x \in st.taskTags :
                                                             x.board = boardId /\ x.task = t}}),
                          !.assignedMembers =
                              Some(SeqOf({r.member : r \in {x \in st.taskAssignments :
                                                               x.board = boardId /\ x.task = t}}))]],
         globalTags |-> [l \in StoredLabels(st, boardId) |->
                           [label |-> l,
                            color |-> (CHOOSE g \in st.tags : g.board = boardId /\ g.label = l).color]],
         teamIds |-> SeqOf({r.team : r \in {x \in st.boardTeams : x.board = boardId}})])

\* loadBoardsList: the ids of the boards, last modified first
loadBoardsList(st) == [i \in 1..Len(st.boards) |-> st.boards[i].id]

-----------------------------------------------------------------------------
(* App: the handlers that await storage (src/App.tsx), and the header of   *)
(* Board in which the board title is edited                                *)

\* an asynchronous call that is awaiting storage.  `snapshot` is the `board`
\* of the render whose closure made the call, `pc` the storage call awaited
\* ("done" and "failed" once the call is over), `at` the step that made it.
Call(kind, boardId, title, snapshot, pc, at) ==
    [kind |-> kind, boardId |-> boardId, title |-> title, snapshot |-> snapshot,
     pc |-> pc, at |-> at]

\* s without its i-th element (1-based)
RemoveAt(s, i) == SubSeq(s, 1, i - 1) \o SubSeq(s, i + 1, Len(s))

\* a step that installs no board (a state setter of a component, the start
\* of an asynchronous call)
Quiet(op) == Step(Ignored(board), op)

\* App.handleRenameBoard up to `await storage.renameBoard(boardId, newTitle)`
handleRenameBoard(calls, b, boardId, newTitle, at) ==
    Append(calls, Call("rename", boardId, newTitle, b, "renameBoard", at))

\* App.handleRenameBoard after the await, b being App's board by then:
\* if (board && boardId === board.id) setBoard({ ...board, title: newTitle }),
\* where `board` is the one the closure captured
handleRenameBoardResumed(call, b) ==
    IF call.boardId = call.snapshot.id
    THEN Updated([call.snapshot EXCEPT !.title = call.title], 0)
    ELSE Ignored(b)

\* Board.handleSaveBoardTitle (blur or Enter in the title input): the board
\* it hands to onBoardUpdate, if any
handleSaveBoardTitle(b, boardTitle) ==
    IF Trim(boardTitle) # "" /\ Trim(boardTitle) # b.title
    THEN Updated([b EXCEPT !.title = Trim(boardTitle)], 0)
    ELSE Ignored(b)

\* the titles typed for a board
BoardTitles == {"Sprint"}

\* the title input of the header is open and a new title was typed into it
TitleTyped(b) ==
    {[FreshView(b) EXCEPT !.boardTitle = t, !.isEditingTitle = TRUE] : t \in BoardTitles}

InitRename ==
    /\ board \in {DefaultBoard, NewBoard}
    /\ nextId = FirstId
    /\ ops = 0
    /\ outcome = "none"
    /\ lastOp = Op("none", UnknownId, UnknownId, "", EmptyUpdate)
    /\ prev = board
    /\ pending = <<>>
    /\ store = saveBoard(EmptyStore, board)
    /\ app = [boards |-> loadBoardsList(store), deletingBoardId |-> Null]
    /\ view \in {FreshView(board)} \cup TitleTyped(board)

\* the rename of the sidebar: App.handleRenameBoard for the displayed board
SidebarRename ==
    \E t \in BoardTitles :
        /\ Quiet(Op("renameBoard", UnknownId, UnknownId, t, EmptyUpdate))
        /\ pending' = handleRenameBoard(pending, board, board.id, t, ops + 1)
        /\ UNCHANGED <<store, app, view>>

\* blur or Enter in the title input.  (The step before is kept in lastOp.)
SaveBoardTitle ==
    /\ view.isEditingTitle
    /\ LET r == handleSaveBoardTitle(board, view.boardTitle)
       IN  /\ Step(r, Op("saveBoardTitle", UnknownId, UnknownId, view.boardTitle,
                         [after |-> lastOp.op]))
           /\ pending' = IF r.outcome = "updated"
                         THEN handleRenameBoard(pending, board, board.id, Trim(view.boardTitle), ops + 1)
                         ELSE pending
           /\ view' = [view EXCEPT
                          !.boardTitle = IF r.outcome = "updated" THEN @ ELSE board.title,
                          !.isEditingTitle = FALSE]
    /\ UNCHANGED <<store, app>>

\* storage.renameBoard (hosted store): update boards set title, last_modified
renameBoard(st, boardId, newTitle) ==
    IF \E i \in 1..Len(st.boards) : st.boards[i].id = boardId
    THEN [st EXCEPT !.boards = <<[id |-> boardId, title |-> newTitle]>>
                                 \o SelectSeq(@, LAMBDA r : r.id # boardId)]
    ELSE st

\* storage.renameBoard answered: the rest of App.handleRenameBoard runs
RenameBoardResumed ==
    \E i \in 1..Len(pending) :
        /\ pending[i].kind = "rename"
        /\ Step(handleRenameBoardResumed(pending[i], board),
                Op("renameBoardResumed", UnknownId, UnknownId, pending[i].title, EmptyUpdate))
        /\ pending' = RemoveAt(pending, i)
        /\ store' = renameBoard(store, pending[i].boardId, pending[i].title)
        /\ app' = [app EXCEPT !.boards = loadBoardsList(store')]
        /\ UNCHANGED view

NextRename ==
    \/ AddTask
    \/ DeleteTask
    \/ SidebarRename
    \/ SaveBoardTitle
    \/ RenameBoardResumed

SpecRename == InitRename /\ [][NextRename]_vars

\* C21: every board installed with setBoard derives from the board current at
\* that moment: when the rest of App.handleRenameBoard installs a board, that
\* board is the one it replaces with the new title, so that no edit completed
\* during the await is lost.
C21_InstalledBoardDerivesFromCurrent ==
    (lastOp.op = "renameBoardResumed" /\ outcome = "updated")
        => board = [prev EXCEPT !.title = lastOp.text]

-----------------------------------------------------------------------------
(* App's save effect (src/App.tsx, lines 88-103) in an authenticated       *)
(* session: every render with a new `board` starts saveBoardAsync          *)

\* a save effect that lets the save in flight finish first
saveEffectUnlessBusy(calls, b, changed, at) ==
    IF changed /\ ~\E i \in 1..Len(calls) : calls[i].pc \notin {"done", "failed"}
    THEN Append(calls, Call("save", b.id, b.title, b, "deleteColumns", at))
    ELSE calls

\* the effect after a handler: when setBoard was called with a new board the
\* effect's dependency changed and saveBoardAsync starts with that board
saveEffect(calls, b, changed, at) ==
    IF changed
    THEN Append(calls, Call("save", b.id, b.title, b, "deleteColumns", at))
    ELSE calls

\* a catch block that puts the board back whose save failed
saveBoardAsyncFailedReinstalls(call, b) == Updated(call.snapshot, 0)

\* the catch block of saveBoardAsync: console.error, no state is set
saveBoardAsyncFailed(call, b) == Ignored(b)

\* a handler of Board ran, and the effect that follows the render
Edit(r, op) ==
    /\ Len(pending) < MaxCalls
    /\ Step(r, op)
    /\ pending' = saveEffect(pending, r.board, r.outcome = "updated", ops + 1)
    /\ UNCHANGED <<store, app, view>>

\* a statement of storage was answered: no handler ran, no id was drawn
Answered(r, op) ==
    /\ board' = r.board
    /\ outcome' = r.outcome
    /\ lastOp' = op
    /\ prev' = board
    /\ UNCHANGED <<nextId, ops>>

SaveOp(name, call) == Op(name, UnknownId, call.at, call.title, EmptyUpdate)

\* the saves that are awaiting the statement pc
Awaiting(pc) == {i \in 1..Len(pending) : pending[i].kind = "save" /\ pending[i].pc = pc}

\* the initial board was loaded from a store that holds it, and its save is
\* under way (setBoard(initialBoard) of the load effect triggers the effect)
InitSave ==
    /\ board = NewBoard
    /\ nextId = FirstId
    /\ ops = 0
    /\ outcome = "none"
    /\ lastOp = Op("none", UnknownId, UnknownId, "", EmptyUpdate)
    /\ prev = board
    /\ pending = saveEffect(<<>>, board, TRUE, 0)
    /\ \E c \in BOOLEAN : store = saveBoard([EmptyStore EXCEPT !.cascade = c], board)
    /\ app = [boards |-> <<board.id>>, deletingBoardId |-> Null]
    /\ view = [boardTitle |-> board.title, isEditingTitle |-> FALSE,
               filterTags |-> <<>>, isChecked |-> FALSE]

\* the column the edits of this session go to
EditedColumns(b) == {b.columns[i].id : i \in 1..Min(1, Len(b.columns))}
\* what is in the "new task" input when it is submitted
SubmittedTitles == {"Old", ""}

EditAddColumn ==
    Edit(handleAddColumn(board, nextId), Op("addColumn", UnknownId, UnknownId, "", EmptyUpdate))

EditRenameColumn ==
    \E c \in EditedColumns(board), t \in ColumnTitles :
        Edit(handleRenameColumn(board, c, t), Op("renameColumn", UnknownId, c, t, EmptyUpdate))

EditAddTask ==
    \E c \in EditedColumns(board), t \in SubmittedTitles :
        Edit(ColumnHandleAddTask(board, nextId, c, t), Op("columnAddTask", UnknownId, c, t, EmptyUpdate))

\* saveBoard: the upsert of the board row and saveColumns' delete were answered
SaveDeletedColumns ==
    \E i \in Awaiting("deleteColumns") :
        /\ Answered(Ignored(board), SaveOp("saveDeletedColumns", pending[i]))
        /\ store' = deleteColumns(upsertBoard(store, pending[i].snapshot), pending[i].boardId)
        /\ pending' = [pending EXCEPT ![i].pc = "insertColumns"]
        /\ UNCHANGED <<app, view>>

\* saveColumns' insert was answered with an error, which saveBoard rethrows
\* to the catch block of saveBoardAsync
SaveInsertRefused ==
    \E i \in Awaiting("insertColumns") :
        /\ ~insertColumns(store, pending[i].snapshot).ok
        /\ Answered(saveBoardAsyncFailed(pending[i], board), SaveOp("saveFailed", pending[i]))
        /\ pending' = [pending EXCEPT ![i].pc = "failed"]
        /\ UNCHANGED <<store, app, view>>

\* saveColumns' insert, saveTasks, saveTags and saveBoardTeams were answered,
\* then loadBoardsList: setBoards(updatedBoards)
SaveDone ==
    \E i \in Awaiting("insertColumns") :
        LET r == insertColumns(store, pending[i].snapshot)
        IN  /\ r.ok
            /\ Answered(Ignored(board), SaveOp("saveDone", pending[i]))
            /\ store' = saveRest(r.store, pending[i].snapshot)
            /\ pending' = [pending EXCEPT ![i].pc = "done"]
            /\ app' = [app EXCEPT !.boards = loadBoardsList(store')]
            /\ UNCHANGED view

\* a statement of the save was answered with an error (network, permission)
SaveFailed ==
    \E i \in Awaiting("deleteColumns") \cup Awaiting("insertColumns") :
        /\ Answered(saveBoardAsyncFailed(pending[i], board), SaveOp("saveFailed", pending[i]))
        /\ pending' = [pending EXCEPT ![i].pc = "failed"]
        /\ UNCHANGED <<store, app, view>>

NextSave ==
    \/ EditAddColumn
    \/ EditRenameColumn
    \/ EditAddTask
    \/ SaveDeletedColumns
    \/ SaveInsertRefused
    \/ SaveDone
    \/ SaveFailed

SpecSave == InitSave /\ [][NextSave]_vars

-----------------------------------------------------------------------------
(* Properties of the save effect *)

EditOps == {"addColumn", "renameColumn", "columnAddTask"}
SaveSteps == {"saveDeletedColumns", "saveDone", "saveFailed"}

\* the saves started by the step that made `ops` n
SavesStartedAt(n) == {i \in 1..Len(pending) : pending[i].kind = "save" /\ pending[i].at = n}

\* the saves that are awaiting storage
SavesInFlight ==
    {i \in 1..Len(pending) : pending[i].kind = "save" /\ pending[i].pc \notin {"done", "failed"}}

SavesFailed == {i \in 1..Len(pending) : pending[i].kind = "save" /\ pending[i].pc = "failed"}

\* the last step was a handler of Board that installed a new board
EditInstalledBoard == lastOp.op \in EditOps /\ outcome = "updated"

\* the board is what the handler of the last step makes of the board before
EditAppliedToPrev ==
    \E n \in {nextId - 2, nextId - 1, nextId} :
        \/ lastOp.op = "addColumn" /\ board = handleAddColumn(prev, n).board
        \/ lastOp.op = "renameColumn"
             /\ board = handleRenameColumn(prev, lastOp.target, lastOp.text).board
        \/ lastOp.op = "columnAddTask"
             /\ board = ColumnHandleAddTask(prev, n, lastOp.target, lastOp.text).board

\* C22: every change of the board to a new snapshot starts one save of exactly
\* that snapshot; a handler that installs no board starts none; the handlers
\* do not wait: an edit is possible while saves are in flight, and no answer
\* to a save touches the board.
C22_EveryChangeStartsOneSave ==
    /\ EditInstalledBoard =>
          /\ Cardinality(SavesStartedAt(ops)) = 1
          /\ \A i \in SavesStartedAt(ops) :
                pending[i].snapshot = board /\ pending[i].pc = "deleteColumns"
    /\ (lastOp.op \in EditOps /\ outcome # "updated") => SavesStartedAt(ops) = {}
    /\ (ops < MaxOps /\ Len(pending) < MaxCalls) => ENABLED EditAddColumn
    /\ lastOp.op \in SaveSteps => board = prev

\* a board was installed while an earlier save was still awaiting storage
C22_Witness ==
    /\ EditInstalledBoard
    /\ \E i \in SavesInFlight : pending[i].at < ops

\* C23: a failed save leaves the in-memory board as it is; the edits after it
\* apply on top of that board, and the next one that changes the board starts
\* a new save, of the new board.
C23_FailedSaveKeepsBoard ==
    /\ lastOp.op = "saveFailed" => (board = prev /\ outcome = "ignored")
    /\ (SavesFailed # {} /\ EditInstalledBoard) =>
          /\ EditAppliedToPrev
          /\ \E i \in SavesInFlight : pending[i].at = ops /\ pending[i].snapshot = board

\* a save failed after the board had moved on from its snapshot, and an edit
\* was made after the failure
C23_Witness ==
    /\ EditInstalledBoard
    /\ \E i \in SavesFailed : pending[i].at < ops - 1 /\ pending[i].snapshot # prev

\* the columns loadBoard would build: ids and titles in the order of position
PersistedColumns(st, boardId) ==
    LET cols == SortedColumns({c \in st.columns : c.board = boardId})
    IN  [i \in 1..Len(cols) |-> [id |-> cols[i].id, title |-> cols[i].title]]

ColumnsOf(b) == [i \in 1..Len(b.columns) |-> [id |-> b.columns[i].id, title |-> b.columns[i].title]]

\* C27: if every storage call succeeded, then whenever no save is in flight
\* the persisted columns are those of the latest in-memory board.
C27_PersistedColumnsAreLatest ==
    (SavesInFlight = {} /\ SavesFailed = {})
        => PersistedColumns(store, board.id) = ColumnsOf(board)

-----------------------------------------------------------------------------
(* Sessions: the active board under the key taskflow_active_board, in both *)
(* storage modules, and App's load effect (src/App.tsx, lines 45-86)       *)

\* the ids createDefaultBoard and createNewBoard give in localStorage mode
\* ('board-1', `board-${Date.now()}`) and in the hosted mode (generateUUID)
LocalBoardIds == <<"board-1", "board-2", "board-3", "board-4", "board-5">>
HostedBoardIds == <<"uuid-1", "uuid-2", "uuid-3", "uuid-4", "uuid-5">>

\* id.startsWith('board-')
StartsWithBoard(id) == id \in Range(LocalBoardIds)

\* the id of the n-th board created in the mode of st
BoardId(st, n) == IF st.mode = "local" THEN LocalBoardIds[n] ELSE HostedBoardIds[n]

\* localStorage module: saveBoard
localSaveBoard(st, b) ==
    LET row == [id |-> b.id, title |-> b.title]
    IN  [st EXCEPT
            !.items = {x \in @ : x.id # b.id} \cup {b},
            !.boards = IF \E i \in 1..Len(@) : @[i].id = b.id
                       THEN [i \in 1..Len(@) |-> IF @[i].id = b.id THEN row ELSE @[i]]
                       ELSE Append(@, row)]

\* localStorage module: loadBoard
localLoadBoard(st, boardId) ==
    IF \E x \in st.items : x.id = boardId
    THEN Some(CHOOSE x \in st.items : x.id = boardId)
    ELSE None

storageSaveBoard(st, b) == IF st.mode = "local" THEN localSaveBoard(st, b) ELSE saveBoard(st, b)

\* (the boards of the sessions have at most one task, so the select on
\* `tasks` has one order)
storageLoadBoard(st, boardId) ==
    IF st.mode = "local"
    THEN localLoadBoard(st, boardId)
    ELSE loadBoard(st, boardId, SeqOf({r.id : r \in {x \in st.tasks : x.board = boardId}}))

setActiveBoard(st, boardId) == [st EXCEPT !.active = boardId]

\* getActiveBoard of either module (no legacy board under taskflow_board):
\* the board returned and the store it leaves
getActiveBoard(st) ==
    LET active == IF st.active # Null THEN storageLoadBoard(st, st.active) ELSE None
        first == IF Len(st.boards) > 0 THEN storageLoadBoard(st, st.boards[1].id) ELSE None
        created == [DefaultBoard EXCEPT !.id = BoardId(st, Len(st.boards) + 1)]
    IN  IF active # None THEN [board |-> active[1], store |-> st]
        ELSE IF first # None
        THEN [board |-> first[1], store |-> setActiveBoard(st, first[1].id)]
        ELSE [board |-> created,
              store |-> setActiveBoard(storageSaveBoard(st, created), created.id)]

\* createNewBoard of either module
createNewBoard(st) ==
    LET b == [NewBoard EXCEPT !.id = BoardId(st, Len(st.boards) + 1)]
    IN  [board |-> b, store |-> storageSaveBoard(st, b)]

\* the load effect before getInitialBoard: "Clear old localStorage IDs"
clearOldActiveBoard(st) ==
    IF st.active # Null /\ StartsWithBoard(st.active)
    THEN [st EXCEPT !.active = Null]
    ELSE st

\* App after a board was installed: the save effect has saved it and
\* reloaded the list, with the components mounted as `v`; the calls that
\* await storage go on awaiting
Displayed(st, b, v) ==
    /\ store' = storageSaveBoard(st, b)
    /\ app' = [app EXCEPT !.boards = loadBoardsList(store')]
    /\ view' = v
    /\ UNCHANGED pending

\* the first session in either mode: getInitialBoard finds nothing stored
InitSession ==
    /\ \E m \in {"local", "supabase"} :
          LET r == getActiveBoard([EmptyStore EXCEPT !.mode = m])
          IN  /\ board = r.board
              /\ store = storageSaveBoard(r.store, r.board)
    /\ nextId = FirstId
    /\ ops = 0
    /\ outcome = "none"
    /\ lastOp = Op("none", UnknownId, UnknownId, "", EmptyUpdate)
    /\ prev = board
    /\ pending = <<>>
    /\ app = [boards |-> loadBoardsList(store), deletingBoardId |-> Null]
    /\ view = FreshView(board)

\* App.handleBoardSelect, from the sidebar's list of boards
BoardSelect ==
    \E i \in 1..Len(app.boards) :
        LET loaded == storageLoadBoard(store, app.boards[i])
            op == Op("selectBoard", UnknownId, UnknownId, app.boards[i], EmptyUpdate)
        IN  IF loaded # None
            THEN /\ Step(Updated(loaded[1], 0), op)
                 /\ Displayed(setActiveBoard(store, app.boards[i]), loaded[1], view)
            ELSE /\ Quiet(op)
                 /\ UNCHANGED appVars

\* App.handleCreateBoard
CreateBoard ==
    /\ Len(store.boards) < Len(LocalBoardIds)
    /\ LET r == createNewBoard(store)
       IN  /\ Step(Updated(r.board, 0), Op("createBoard", UnknownId, UnknownId, r.board.id, EmptyUpdate))
           /\ Displayed(setActiveBoard(r.store, r.board.id), r.board, view)

\* the page is loaded anew: App's load effect.  (The key as it was stored is
\* kept in the `text` of lastOp.)
Restart ==
    LET r == getActiveBoard(clearOldActiveBoard(store))
    IN  /\ Step(Updated(r.board, 0), Op("restart", UnknownId, UnknownId, store.active, EmptyUpdate))
        /\ Displayed(r.store, r.board, FreshView(r.board))

\* an edit of the displayed board, saved by the effect
SessionAddColumn ==
    LET r == handleAddColumn(board, nextId)
    IN  /\ Step(r, Op("addColumn", UnknownId, UnknownId, "", EmptyUpdate))
        /\ Displayed(store, r.board, view)

NextSession ==
    \/ SessionAddColumn
    \/ BoardSelect
    \/ CreateBoard
    \/ Restart

SpecSession == InitSession /\ [][NextSession]_vars

\* C24: in both storage modes, when a board was the active one (the key holds
\* its id) and is still stored, the board displayed after a restart is that
\* board.
C24_SelectionSurvivesRestart ==
    (lastOp.op = "restart" /\ lastOp.text \in Range(loadBoardsList(store)))
        => board.id = lastOp.text

-----------------------------------------------------------------------------
(* getDeadlineStatus (utils/helpers.ts, lines 3-19), called by the task    *)
(* card with task.endDate, the 'YYYY-MM-DD' value of an <input type=date>. *)
(* Dates are day numbers.  The browser's clock is [today, west, shift]:    *)
(* today's day number, whether local time is behind UTC, and by how many   *)
(* hours daylight saving makes the span between the two local midnights    *)
(* differ from a multiple of 24 hours.                                      *)

\* Math.ceil(hours / 24)
CeilDays(hours) == -((-hours) \div 24)

\* new Date(endDate) is midnight UTC of the end date; setHours(0, 0, 0, 0)
\* moves it to the local midnight of the local day that instant falls in:
\* the end date itself east of Greenwich, the day before west of it
LocalDay(endDay, clock) == IF clock.west THEN endDay - 1 ELSE endDay

\* deadline.getTime() - today.getTime(), in hours
DiffTime(endDay, clock) == 24 * (LocalDay(endDay, clock) - clock.today) + clock.shift

\* endDate is None for '' and Some(day) otherwise
getDeadlineStatus(endDate, clock) ==
    IF endDate = None THEN "none"
    ELSE LET diffDays == CeilDays(DiffTime(endDate[1], clock))
         IN  IF diffDays < 0 THEN "red"
             ELSE IF diffDays = 0 THEN "red"
             ELSE IF diffDays <= 3 THEN "yellow"
             ELSE "green"

\* the clocks a browser can have when the card with end day e is rendered:
\* the two local midnights are the same instant when they are the same day
Clocks(endDate) ==
    {c \in [today : {0}, west : BOOLEAN, shift : {-1, 0, 1}] :
        (endDate = None \/ LocalDay(endDate[1], c) = c.today) => c.shift = 0}

EndDates == {None} \cup {Some(e) : e \in (0 - MaxDays)..MaxDays}

\* a task card is rendered
RenderDeadline ==
    \E e \in EndDates :
        \E c \in Clocks(e) :
            /\ Quiet(Op("getDeadlineStatus", UnknownId, UnknownId, "",
                        [endDate |-> e, clock |-> c, status |-> getDeadlineStatus(e, c)]))
            /\ UNCHANGED appVars

NextDeadline == RenderDeadline

SpecDeadline == Init /\ [][NextDeadline]_vars

\* the traffic light of the README for a whole-day difference d
DeadlineAmpel(d) ==
    IF d <= 0 THEN "red" ELSE IF d <= 3 THEN "yellow" ELSE "green"

\* C25: getDeadlineStatus is `none` without an end date and otherwise the
\* README's light for the whole-day difference d between end date and today:
\* red for d <= 0, yellow for 1..3, green for d > 3.
C25_DeadlineStatusFollowsReadme ==
    lastOp.op = "getDeadlineStatus" =>
        LET u == lastOp.updates
        IN  u.status = IF u.endDate = None THEN "none"
                       ELSE DeadlineAmpel(u.endDate[1] - u.clock.today)

-----------------------------------------------------------------------------
(* The round trip through the hosted store: the board is saved after every *)
(* edit (one save at a time, every statement succeeds) and loaded again    *)

\* Settings.handleTeamToggle, selectedTeamIds being board.teamIds
handleTeamToggle(b, teamId) ==
    Updated([b EXCEPT !.teamIds = IF Includes(@, teamId)
                                  THEN FilterOut(@, teamId)
                                  ELSE Append(@, teamId)], 0)

\* TaggedBoard with a member assigned to a task and a team assigned to the board
TeamBoard ==
    LET b1 == handleUpdateTask(TaggedBoard, FirstSavedId, FirstId,
                               [assignedMembers |-> <<"m1">>]).board
    IN  handleTeamToggle(b1, "team-1").board

\* the store after the saves of the edits that built the board
InitStore ==
    /\ board = TeamBoard
    /\ nextId = FirstSavedId + 1
    /\ ops = 0
    /\ outcome = "none"
    /\ lastOp = Op("none", UnknownId, UnknownId, "", EmptyUpdate)
    /\ prev = board
    /\ pending = <<>>
    /\ \E c \in BOOLEAN :
          store = saveBoard(saveBoard([EmptyStore EXCEPT !.cascade = c], board), board)
    /\ app = [boards |-> <<board.id>>, deletingBoardId |-> Null]
    /\ view = FreshView(board)

\* a handler ran and the save of the board it installed has finished
Stored(r, op) ==
    /\ Step(r, op)
    /\ store' = IF r.outcome = "updated" THEN saveBoard(store, r.board) ELSE store
    /\ UNCHANGED <<pending, app, view>>

StoredDeleteTask ==
    \E t \in TaskIds(board) :
        Stored(handleDeleteTask(board, t), Op("deleteTask", t, UnknownId, "", EmptyUpdate))

StoredDeleteTag ==
    \E l \in TagLabels :
        Stored(handleDeleteTag(board, l), Op("deleteTag", UnknownId, UnknownId, l, EmptyUpdate))

StoredUpdateTask ==
    \E t \in TaskIds(board), u \in {[tags |-> <<>>], [assignedMembers |-> <<>>]} :
        Stored(handleUpdateTask(board, nextId, t, u), Op("updateTask", t, UnknownId, "", u))

StoredTeamToggle ==
    Stored(handleTeamToggle(board, "team-1"),
           Op("teamToggle", UnknownId, UnknownId, "team-1", EmptyUpdate))

StoredDragEnd ==
    \E a \in TaskIds(board), o \in TaskIds(board) :
        Stored(handleDragEnd(board, a, o), Op("dragEnd", a, o, "", EmptyUpdate))

\* loadBoard(board.id) of the next session or of handleBoardSelect
Reload ==
    /\ lastOp.op # "reload"
    /\ \E order \in Orders({r \in store.tasks : r.board = board.id}) :
          LET loaded == loadBoard(store, board.id, order)
          IN  /\ loaded # None
              /\ Step(Updated(loaded[1], 0), Op("reload", UnknownId, UnknownId, "", EmptyUpdate))
              /\ UNCHANGED appVars

NextStore ==
    \/ StoredDeleteTask
    \/ StoredDeleteTag
    \/ StoredUpdateTask
    \/ StoredTeamToggle
    \/ StoredDragEnd
    \/ Reload

SpecStore == InitStore /\ [][NextStore]_vars

\* what the round trip is to preserve of board a in board b
SameAfterRoundTrip(a, b) ==
    /\ [i \in 1..Len(a.columns) |-> a.columns[i].id] = [i \in 1..Len(b.columns) |-> b.columns[i].id]
    /\ TaskIds(a) = TaskIds(b)
    /\ \A i \in 1..Len(a.columns) :
          i <= Len(b.columns) => a.columns[i].taskIds = b.columns[i].taskIds
    /\ \A t \in TaskIds(a) \cap TaskIds(b) :
          /\ Range(a.tasks[t].tags) = Range(b.tasks[t].tags)
          /\ Range(OrEmpty(a.tasks[t].assignedMembers)) = Range(OrEmpty(b.tasks[t].assignedMembers))
    /\ DOMAIN a.globalTags = DOMAIN b.globalTags
    /\ Range(a.teamIds) = Range(b.teamIds)

\* C26: saveBoard(B) followed by loadBoard(B.id), on a store that held an
\* earlier version of B, returns B's column order, task ids, task order per
\* column, tags and members per task, global tag labels and team ids.
C26_SaveLoadRoundTrip ==
    lastOp.op = "reload" => SameAfterRoundTrip(prev, board)

-----------------------------------------------------------------------------
(* The state Board keeps across renders: the title input of the header     *)
(* (boardTitle, isEditingTitle) and the tag filter (filterTags).  App       *)
(* renders <Board> without a key, so the state outlives a board switch.     *)

\* FilterBar.handleKeyDown (Enter), handleInputChange (comma) and
\* handleSuggestionClick: the array handed to onTagsChange
FilterSelect(globalTags, selectedTags, label) ==
    IF label \in DOMAIN globalTags /\ ~Includes(selectedTags, label)
    THEN Append(selectedTags, label)
    ELSE selectedTags

\* FilterBar.handleRemoveTag
handleRemoveTag(selectedTags, label) == FilterOut(selectedTags, label)

\* a step that sets state of Board only
Viewed(op, v) ==
    /\ Quiet(op)
    /\ view' = v
    /\ UNCHANGED <<pending, store, app>>

ViewOp(name, text) == Op(name, UnknownId, UnknownId, text, EmptyUpdate)

\* the hosted store holds two boards; the one with the tags is displayed
InitView ==
    /\ \E c \in BOOLEAN :
          LET a == [TaggedBoard EXCEPT !.id = HostedBoardIds[1], !.title = "Projekt"]
              b == [NewBoard EXCEPT !.id = HostedBoardIds[2]]
              st == saveBoard(saveBoard(saveBoard([EmptyStore EXCEPT !.cascade = c], b), a), a)
          IN  /\ store = setActiveBoard(st, a.id)
              /\ board = storageLoadBoard(store, a.id)[1]
    /\ nextId = FirstSavedId
    /\ ops = 0
    /\ outcome = "none"
    /\ lastOp = Op("none", UnknownId, UnknownId, "", EmptyUpdate)
    /\ prev = board
    /\ pending = <<>>
    /\ app = [boards |-> loadBoardsList(store), deletingBoardId |-> Null]
    /\ view = FreshView(board)

\* click on the title in the header
StartEditTitle ==
    /\ ~view.isEditingTitle
    /\ Viewed(ViewOp("startEditTitle", ""), [view EXCEPT !.isEditingTitle = TRUE])

\* onChange of the title input
TypeTitle ==
    /\ view.isEditingTitle
    /\ \E t \in BoardTitles \cup BlankTitles :
          Viewed(ViewOp("typeTitle", t), [view EXCEPT !.boardTitle = t])

\* Escape in the title input
EscapeTitle ==
    /\ view.isEditingTitle
    /\ Viewed(ViewOp("escapeTitle", ""),
              [view EXCEPT !.boardTitle = board.title, !.isEditingTitle = FALSE])

\* Board.handleBoardRename, from Settings
SettingsRename ==
    \E t \in BoardTitles :
        /\ t # board.title
        /\ Quiet(ViewOp("settingsRename", t))
        /\ pending' = handleRenameBoard(pending, board, board.id, t, ops + 1)
        /\ view' = [view EXCEPT !.boardTitle = t]
        /\ UNCHANGED <<store, app>>

\* a tag is chosen in the filter bar
FilterAdd ==
    \E l \in SavedLabels :
        Viewed(ViewOp("filterAdd", l),
               [view EXCEPT !.filterTags = FilterSelect(board.globalTags, @, l)])

\* the X of a selected tag (rendered for the tags globalTags has)
FilterRemove ==
    \E l \in Range(view.filterTags) \cap DOMAIN board.globalTags :
        Viewed(ViewOp("filterRemove", l), [view EXCEPT !.filterTags = handleRemoveTag(@, l)])

NextView ==
    \/ StartEditTitle
    \/ TypeTitle
    \/ SaveBoardTitle
    \/ EscapeTitle
    \/ SidebarRename
    \/ SettingsRename
    \/ RenameBoardResumed
    \/ BoardSelect
    \/ FilterAdd
    \/ FilterRemove
    \/ DeleteTag

SpecView == InitView /\ [][NextView]_vars

\* C28: entering and leaving the title's edit mode without typing changes no
\* title and issues no rename: when edit mode is entered the input holds the
\* title of the board displayed, and a blur or Enter that follows directly
\* installs no board and starts no call.
C28_UntypedEditKeepsTitle ==
    /\ lastOp.op = "startEditTitle" => view.boardTitle = board.title
    /\ (lastOp.op = "saveBoardTitle" /\ lastOp.updates.after = "startEditTitle") =>
          /\ outcome = "ignored"
          /\ board = prev
          /\ \A i \in 1..Len(pending) : pending[i].at # ops

\* C29: filterTags has no duplicates and holds only labels of board.globalTags.
C29_FilterTagsAreGlobalTags ==
    /\ \A i, j \in 1..Len(view.filterTags) : i # j => view.filterTags[i] # view.filterTags[j]
    /\ Range(view.filterTags) \subseteq DOMAIN board.globalTags

-----------------------------------------------------------------------------
(* Deleting a board: the request from the sidebar or from Settings, the    *)
(* confirmation modal with its checkbox, and App.handleDeleteBoardConfirm,  *)
(* which awaits storage.deleteBoard                                         *)

\* storage.deleteBoard (hosted store): delete from boards where id = boardId
\* (the rows that hang on the board go with it where the schema cascades),
\* then the key of the active board is moved if it named the board
deleteBoard(st, boardId) ==
    LET left == SelectSeq(st.boards, LAMBDA r : r.id # boardId)
        Kept(rows) == IF st.cascade THEN {r \in rows : r.board # boardId} ELSE rows
    IN  [st EXCEPT !.boards = left,
                   !.columns = Kept(@),
                   !.tasks = Kept(@),
                   !.tags = Kept(@),
                   !.taskTags = Kept(@),
                   !.taskAssignments = Kept(@),
                   !.boardTeams = Kept(@),
                   !.active = IF @ = boardId
                              THEN IF Len(left) > 0 THEN left[1].id ELSE Null
                              ELSE @]

\* App.handleDeleteBoardRequest, a being App's state (boards, deletingBoardId)
handleDeleteBoardRequest(a, boardId) ==
    IF Len(a.boards) <= 1
    THEN a
    ELSE [a EXCEPT !.deletingBoardId = boardId]

\* App.handleDeleteBoardConfirm up to `await storage.deleteBoard(deletingBoardId)`
handleDeleteBoardConfirm(calls, a, b) ==
    IF a.deletingBoardId = Null
    THEN calls
    ELSE Append(calls, Call("delete", a.deletingBoardId, "", b, "deleteBoard", ops))

\* App.handleDeleteBoardCancel
handleDeleteBoardCancel(a) == [a EXCEPT !.deletingBoardId = Null]

\* the delete calls that are awaiting pc
Deleting(pc) == {i \in 1..Len(pending) : pending[i].kind = "delete" /\ pending[i].pc = pc}

\* a step of the modal or of the sidebar: no board is installed.  (The length
\* of App's boards before the step is kept in the `updates` of lastOp.)
Modal(name, boardId) ==
    Answered(Ignored(board), Op(name, UnknownId, UnknownId, boardId, [boards |-> Len(app.boards)]))

\* the trash button of a board in the sidebar, or "Board löschen" in Settings
\* (for the board displayed); the modal is closed
DeleteBoardRequest ==
    \E i \in 1..Len(app.boards) :
        /\ app.deletingBoardId = Null
        /\ Modal("deleteRequest", app.boards[i])
        /\ app' = handleDeleteBoardRequest(app, app.boards[i])
        /\ UNCHANGED <<pending, store, view>>

\* the checkbox of the modal
ModalCheck ==
    /\ app.deletingBoardId # Null
    /\ Modal("modalCheck", app.deletingBoardId)
    /\ view' = [view EXCEPT !.isChecked = ~@]
    /\ UNCHANGED <<pending, store, app>>

\* DeleteBoardModal.handleConfirm: the button is disabled unless isChecked
ModalConfirm ==
    /\ app.deletingBoardId # Null
    /\ view.isChecked
    /\ Len(pending) < MaxCalls
    /\ Modal("modalConfirm", app.deletingBoardId)
    /\ pending' = handleDeleteBoardConfirm(pending, app, board)
    /\ view' = [view EXCEPT !.isChecked = FALSE]
    /\ UNCHANGED <<store, app>>

\* DeleteBoardModal.handleCancel
ModalCancel ==
    /\ app.deletingBoardId # Null
    /\ Modal("modalCancel", app.deletingBoardId)
    /\ view' = [view EXCEPT !.isChecked = FALSE]
    /\ app' = handleDeleteBoardCancel(app)
    /\ UNCHANGED <<pending, store>>

\* storage.deleteBoard was answered
DeleteBoardAnswered ==
    \E i \in Deleting("deleteBoard") :
        /\ Modal("deleteBoardAnswered", pending[i].boardId)
        /\ store' = deleteBoard(store, pending[i].boardId)
        /\ pending' = [pending EXCEPT ![i].pc = "loadBoardsList"]
        /\ UNCHANGED <<app, view>>

\* storage.deleteBoard threw: handleDeleteBoardConfirm logs the error
DeleteBoardFailed ==
    \E i \in Deleting("deleteBoard") :
        /\ Modal("deleteBoardFailed", pending[i].boardId)
        /\ pending' = [pending EXCEPT ![i].pc = "failed"]
        /\ UNCHANGED <<store, app, view>>

\* the rest of handleDeleteBoardConfirm: if the board deleted is the board of
\* the closure, the first board that remains is selected (handleBoardSelect,
\* and the save effect saves the board installed); then setBoards and
\* setDeletingBoardId(null)
DeleteBoardResumed ==
    \E i \in Deleting("loadBoardsList") :
        LET call == pending[i]
            remainingBoards == loadBoardsList(store)
            selectedBoard == IF call.boardId = call.snapshot.id /\ Len(remainingBoards) > 0
                             THEN storageLoadBoard(store, remainingBoards[1])
                             ELSE None
            op == Op("deleteBoardResumed", UnknownId, UnknownId, call.boardId,
                     [boards |-> Len(app.boards)])
        IN  /\ IF selectedBoard # None
               THEN /\ Answered(Updated(selectedBoard[1], 0), op)
                    /\ store' = storageSaveBoard(setActiveBoard(store, remainingBoards[1]),
                                                 selectedBoard[1])
               ELSE /\ Answered(Ignored(board), op)
                    /\ UNCHANGED store
            /\ app' = [boards |-> loadBoardsList(store'), deletingBoardId |-> Null]
            /\ pending' = [pending EXCEPT ![i].pc = "done"]
            /\ UNCHANGED view

NextDelete ==
    \/ DeleteBoardRequest
    \/ ModalCheck
    \/ ModalConfirm
    \/ ModalCancel
    \/ DeleteBoardAnswered
    \/ DeleteBoardFailed
    \/ DeleteBoardResumed

SpecDelete == InitView /\ [][NextDelete]_vars

\* C30: the last board is never deleted: a delete request made while App's
\* list of boards has at most one entry opens no modal, a deletion is started
\* only with the checkbox ticked, and the stored list of boards never becomes
\* empty.
C30_LastBoardIsNeverDeleted ==
    /\ (lastOp.op = "deleteRequest" /\ lastOp.updates.boards <= 1) => app.deletingBoardId = Null
    /\ lastOp.op = "modalConfirm" => ~view.isChecked
    /\ Len(store.boards) > 0

====
